---------------------------- MODULE Spec2Model ----------------------------
(***************************************************************************)
(* ChronoClime: the activity suitability score (ACIS) and the optimal      *)
(* time window search of src/src/utils/weatherData.ts, together with the   *)
(* two components that call them (ACISResults.tsx, DayDetail.tsx).         *)
(*                                                                         *)
(* Numbers.  The weather readings used here are integers.  The ACIS score  *)
(* and the factor impacts are kept in TENTHS (100 is 10.0, -25 is -2.5):   *)
(* every value calculateACIS computes is a multiple of 0.5 below 16, which *)
(* a double represents exactly, so the scaled integer arithmetic is the    *)
(* arithmetic of the code.  The window score of findOptimalTimeWindow is   *)
(* built from 0.3, 0.2 and 0.4, which a double does not represent exactly; *)
(* it is kept as the exact IEEE-754 double, see F64 below.                  *)
(*                                                                         *)
(* Strings are sequences of one-character strings, so that toLowerCase is  *)
(* computed character by character.                                       *)
(***************************************************************************)
EXTENDS Integers, Sequences, FiniteSets, TLC

VARIABLES
    activity,           \* App state `activity`, the prop of both components
    forecast,           \* App state `forecast`: a sequence of DailyWeather
    selectedDay,        \* App state `selectedDay`: a DailyWeather or Null
    pc,                 \* where the rendering is
    preferences,        \* const preferences of the component being rendered
    resultsWithScores,  \* ACISResults: forecast.map(...) built so far
    weather,            \* calculateACIS: parameter `weather`
    factors,            \* calculateACIS: local `factors`
    totalScore,         \* calculateACIS: local `totalScore` (tenths)
    hourlyData,         \* findOptimalTimeWindow: parameter `hourlyData`
    start,              \* findOptimalTimeWindow: loop variable `start`
    duration,           \* findOptimalTimeWindow: loop variable `duration`
    bestWindow,         \* findOptimalTimeWindow: local `bestWindow`
    optimalWindow,      \* DayDetail: const optimalWindow (what is displayed)
    observed,           \* history: one completed call, its arguments and result
    invocations,        \* calls running side by side: function, day, position
    frames,             \* the locals of each of those calls
    evaluated,          \* history: the <<start, duration>> scored by this call
    storage,            \* localStorage['chronoclime_notifications'], parsed
    now,                \* Date.now(), in milliseconds
    notifications,      \* NotificationCenter state `notifications`
    unreadCount,        \* NotificationCenter state `unreadCount`
    markedId,           \* history: the id last given to markNotificationAsRead
    storedBefore        \* history: the stored notifications before that call

vars == <<activity, forecast, selectedDay, pc, preferences, resultsWithScores,
          weather, factors, totalScore, hourlyData, start, duration,
          bestWindow, optimalWindow, observed, invocations, frames,
          evaluated, storage, now, notifications, unreadCount, markedId,
          storedBefore>>

appVars == <<activity, forecast>>
acisVars == <<weather, factors, totalScore>>
windowVars == <<hourlyData, start, duration, bestWindow, evaluated>>
callVars == <<invocations, frames>>
noteVars == <<storage, now, notifications, unreadCount, markedId, storedBefore>>

-----------------------------------------------------------------------------
(* JavaScript values *)

\* null (selectedDay before a day is selected, a parameter before a call)
Null == [null |-> TRUE]

\* undefined: what a property read yields when the property does not exist
Undefined == [type |-> "undefined"]

\* String.prototype.toLowerCase on one character (ASCII letters)
LowerChar(c) ==
    CASE c = "A" -> "a" [] c = "B" -> "b" [] c = "C" -> "c" [] c = "D" -> "d"
      [] c = "E" -> "e" [] c = "F" -> "f" [] c = "G" -> "g" [] c = "H" -> "h"
      [] c = "I" -> "i" [] c = "J" -> "j" [] c = "K" -> "k" [] c = "L" -> "l"
      [] c = "M" -> "m" [] c = "N" -> "n" [] c = "O" -> "o" [] c = "P" -> "p"
      [] c = "Q" -> "q" [] c = "R" -> "r" [] c = "S" -> "s" [] c = "T" -> "t"
      [] c = "U" -> "u" [] c = "V" -> "v" [] c = "W" -> "w" [] c = "X" -> "x"
      [] c = "Y" -> "y" [] c = "Z" -> "z" [] OTHER -> c

\* The name used as written, without lower-casing
KeepCase(s) == s

\* activityName.toLowerCase()
ToLowerCase(s) == [i \in 1..Len(s) |-> LowerChar(s[i])]

\* What reading a numeric property yields when the object has no such
\* property (undefined).  The records of weather data all have the same
\* fields, so that they can be told apart; a field an object of the program
\* lacks holds this value, which is no reading.
UndefinedNumber == -1000

IsNumber(x) == x # UndefinedNumber

\* x >= obj.f, x <= obj.f, x > obj.f, x < obj.f for a number x.  A property
\* the object does not have reads as undefined, undefined converts to NaN,
\* and every comparison with NaN is false.
GreaterEq(x, obj, f) == IsNumber(x) /\ f \in DOMAIN obj /\ x >= obj[f]
LessEq(x, obj, f)    == IsNumber(x) /\ f \in DOMAIN obj /\ x <= obj[f]
Greater(x, obj, f)   == IsNumber(x) /\ f \in DOMAIN obj /\ x > obj[f]
Less(x, obj, f)      == IsNumber(x) /\ f \in DOMAIN obj /\ x < obj[f]

-----------------------------------------------------------------------------
(* The activity table and its lookup *)

KeyTrekking      == <<"t", "r", "e", "k", "k", "i", "n", "g">>
KeyPhotography   == <<"p", "h", "o", "t", "o", "g", "r", "a", "p", "h", "y">>
KeyPicnic        == <<"p", "i", "c", "n", "i", "c">>
KeyCycling       == <<"c", "y", "c", "l", "i", "n", "g">>
KeyBeachDay      == <<"b", "e", "a", "c", "h", " ", "d", "a", "y">>
KeyCamping       == <<"c", "a", "m", "p", "i", "n", "g">>
KeyOutdoorSports == <<"o", "u", "t", "d", "o", "o", "r", " ", "s", "p", "o", "r", "t", "s">>
KeyBirdWatching  == <<"b", "i", "r", "d", " ", "w", "a", "t", "c", "h", "i", "n", "g">>
KeyStargazing    == <<"s", "t", "a", "r", "g", "a", "z", "i", "n", "g">>
KeyGardening     == <<"g", "a", "r", "d", "e", "n", "i", "n", "g">>

\* interface ActivityPreferences
Prefs(tmin, tmax, w, p) ==
    [idealTempMin |-> tmin, idealTempMax |-> tmax,
     maxWindSpeed |-> w, maxPrecipitation |-> p]

\* The own properties of the object literal activityDefaults
ActivityKeys ==
    {KeyTrekking, KeyPhotography, KeyPicnic, KeyCycling, KeyBeachDay,
     KeyCamping, KeyOutdoorSports, KeyBirdWatching, KeyStargazing,
     KeyGardening}

activityDefaults(k) ==
    CASE k = KeyTrekking      -> Prefs(10, 25, 20, 20)
      [] k = KeyPhotography   -> Prefs(5, 30, 25, 10)
      [] k = KeyPicnic        -> Prefs(15, 28, 15, 5)
      [] k = KeyCycling       -> Prefs(12, 26, 20, 10)
      [] k = KeyBeachDay      -> Prefs(22, 35, 25, 5)
      [] k = KeyCamping       -> Prefs(8, 22, 15, 15)
      [] k = KeyOutdoorSports -> Prefs(15, 28, 20, 10)
      [] k = KeyBirdWatching  -> Prefs(10, 25, 15, 20)
      [] k = KeyStargazing    -> Prefs(5, 20, 10, 0)
      [] k = KeyGardening     -> Prefs(12, 28, 15, 30)

\* activityDefaults is an object literal, so a property read that finds no
\* own property continues in Object.prototype.  These are its properties;
\* each holds a function (constructor, toString, ...) or an object
\* (__proto__), none of which has a field of ActivityPreferences.
ObjectPrototypeKeys ==
    {<<"c", "o", "n", "s", "t", "r", "u", "c", "t", "o", "r">>,
     <<"_", "_", "p", "r", "o", "t", "o", "_", "_">>,
     <<"h", "a", "s", "O", "w", "n", "P", "r", "o", "p", "e", "r", "t", "y">>,
     <<"i", "s", "P", "r", "o", "t", "o", "t", "y", "p", "e", "O", "f">>,
     <<"p", "r", "o", "p", "e", "r", "t", "y", "I", "s", "E", "n", "u", "m", "e", "r", "a", "b", "l", "e">>,
     <<"t", "o", "L", "o", "c", "a", "l", "e", "S", "t", "r", "i", "n", "g">>,
     <<"t", "o", "S", "t", "r", "i", "n", "g">>,
     <<"v", "a", "l", "u", "e", "O", "f">>,
     <<"_", "_", "d", "e", "f", "i", "n", "e", "G", "e", "t", "t", "e", "r", "_", "_">>,
     <<"_", "_", "d", "e", "f", "i", "n", "e", "S", "e", "t", "t", "e", "r", "_", "_">>,
     <<"_", "_", "l", "o", "o", "k", "u", "p", "G", "e", "t", "t", "e", "r", "_", "_">>,
     <<"_", "_", "l", "o", "o", "k", "u", "p", "S", "e", "t", "t", "e", "r", "_", "_">>}

\* The value Object.prototype holds under key k
Inherited(k) == [type |-> "object", inheritedFrom |-> "Object.prototype", key |-> k]

\* activityDefaults[normalized]
Lookup(normalized) ==
    IF normalized \in ActivityKeys THEN activityDefaults(normalized)
    ELSE IF normalized \in ObjectPrototypeKeys THEN Inherited(normalized)
    ELSE Undefined

\* Objects and functions are truthy, undefined is falsy
Truthy(v) == v # Undefined

\* export function getActivityPreferences(activityName)
getActivityPreferences(activityName) ==
    LET normalized == ToLowerCase(activityName)
    IN  IF Truthy(Lookup(normalized)) THEN Lookup(normalized)
        ELSE Lookup(KeyTrekking)

-----------------------------------------------------------------------------
(* calculateACIS: the five rules, in tenths of a point *)

BaseScore == 100
TempPenalty == -20
WindPenalty == -15
PrecipPenalty == -25
AqiPenalty == -10
UvPenaltyWhole == 0 - 10
UvPenalty == -5
AqiThreshold == 100
UvThreshold == 8
MinScore == 10
MaxScore == 100

\* A temperature penalty of ten whole points
TempScoreSevere(w, p) ==
    IF GreaterEq(w.temp, p, "idealTempMin") /\ LessEq(w.temp, p, "idealTempMax")
    THEN 0 ELSE 0 - BaseScore

\* const tempScore = weather.temp >= idealTempMin && weather.temp <= idealTempMax ? 0 : -2
TempScore(w, p) ==
    IF GreaterEq(w.temp, p, "idealTempMin") /\ LessEq(w.temp, p, "idealTempMax")
    THEN 0 ELSE TempPenalty

\* A wind test that also fires at the ceiling
WindAtLeast(w, p) == GreaterEq(w.wind, p, "maxWindSpeed")

\* weather.wind > preferences.maxWindSpeed
WindExceeds(w, p) == Greater(w.wind, p, "maxWindSpeed")

\* A precipitation test that also fires at the ceiling
PrecipAtLeast(w, p) == GreaterEq(w.precipitation, p, "maxPrecipitation")

\* weather.precipitation > preferences.maxPrecipitation
PrecipExceeds(w, p) == Greater(w.precipitation, p, "maxPrecipitation")

\* A boundary slip: weather.aqi >= 100
AqiAtLeast(w) == w.aqi >= AqiThreshold

\* weather.aqi > 100
AqiExceeds(w) == IsNumber(w.aqi) /\ w.aqi > AqiThreshold

\* A UV threshold that the profile raises: 9 unless the ideal temperatures
\* end at 30 or below
UvExceedsForProfile(w) ==
    IF GreaterEq(30, preferences, "idealTempMax") THEN w.uv > UvThreshold
    ELSE w.uv > UvThreshold + 1

\* weather.uv > 8
UvExceeds(w) == IsNumber(w.uv) /\ w.uv > UvThreshold

\* { name, impact, value }
Factor(n, i, v) == [name |-> n, impact |-> i, value |-> v]

Min2(a, b) == IF a < b THEN a ELSE b
Max2(a, b) == IF a > b THEN a ELSE b

\* The score put on a 0..100 scale: Math.max(1, Math.min(100, totalScore * 10))
ClampScorePercent(t) == Max2(MinScore, Min2(MaxScore * 10, t * 10))

\* Math.max(1, Math.min(10, totalScore))
ClampScore(t) == Max2(MinScore, Min2(MaxScore, t))

-----------------------------------------------------------------------------
(* IEEE-754 doubles for the window score *)

\* A double x with 1 <= x < 16 (or 0) is the integer x * 2^55, which is kept
\* in two limbs: x * 2^55 = hi * 2^28 + lo with 0 <= lo < 2^28.
Limb == 2^28
F64(h, l) == [hi |-> h, lo |-> l]

Zero == F64(0, 0)                          \* 0
Ten == F64(1342177280, 0)                  \* 10
TempHourPenalty == F64(40265318, 107374182)    \* the double nearest 0.3
WindHourPenalty == F64(26843545, 161061274)    \* the double nearest 0.2
PrecipHourPenalty == F64(53687091, 53687092)   \* the double nearest 0.4

\* The spacing of doubles around hi * 2^28 * 2^-55, in units of 2^-55:
\* 2^-49 in [8, 16), 2^-50 in [4, 8), 2^-51 in [2, 4), 2^-52 in [1, 2)
Ulp(hi) ==
    IF hi >= 8 * 2^27 THEN 64
    ELSE IF hi >= 4 * 2^27 THEN 32
    ELSE IF hi >= 2 * 2^27 THEN 16
    ELSE 8

\* v - c in double arithmetic: the exact difference, rounded to the nearest
\* double, a tie to the even one
FSubValue(v, c) ==
    LET borrow == v.lo < c.lo
        hi == v.hi - c.hi - (IF borrow THEN 1 ELSE 0)
        lo == v.lo - c.lo + (IF borrow THEN Limb ELSE 0)
        u == Ulp(hi)
        r == lo % u
        base == lo - r
        up == (2 * r > u) \/ (2 * r = u /\ (base \div u) % 2 = 1)
        lo2 == base + (IF up THEN u ELSE 0)
    IN  IF lo2 = Limb THEN F64(hi + 1, 0) ELSE F64(hi, lo2)

\* score -= c.  v is the value of x, which is computed once however often
\* the limbs are read.
FSub(x, c) == CHOOSE d \in {FSubValue(v, c) : v \in {x}} : TRUE

\* x > y
FGreater(x, y) == x.hi > y.hi \/ (x.hi = y.hi /\ x.lo > y.lo)

-----------------------------------------------------------------------------
(* findOptimalTimeWindow *)

FirstStart == 6
StartLimit == 18
MinDurationFour == 3 + 1

MinDurationTwo == 3 - 1
MinDuration == 3
MaxDurationNine == 8 + 1
MaxDuration == 8
LastEnd == 20

\* (bestWindow kept from the previous call instead of being initialised)
InitialWindowStale ==
    IF bestWindow = Null THEN [startHour |-> 9, endHour |-> 17, score |-> Zero]
    ELSE bestWindow

\* The default window given the best possible score
InitialWindowTen == [startHour |-> 9, endHour |-> 17, score |-> Ten]

\* let bestWindow = { startHour: 9, endHour: 17, score: 0 }
InitialWindow == [startHour |-> 9, endHour |-> 17, score |-> Zero]

\* A selection of the samples by their .hour field
SliceByHour(h, s, e) ==
    SelectSeq(h, LAMBDA sample : s <= sample.hour /\ sample.hour < e)

\* A slice that wraps around: the positions beyond the array are taken from
\* its start
SliceWrapped(h, s, e) ==
    IF Len(h) = 0 THEN <<>> ELSE [i \in 1..(e - s) |-> h[((s + i - 1) % Len(h)) + 1]]

\* A slice that repeats the last sample for the positions beyond the array
SlicePadded(h, s, e) ==
    IF Len(h) = 0 THEN <<>> ELSE [i \in 1..(e - s) |-> h[Min2(s + i, Len(h))]]

\* hourlyData.slice(start, end): the elements at the 0-based indices
\* start .. end-1 that exist
Slice(h, s, e) ==
    LET last == Min2(e, Len(h))
    IN  IF s >= last THEN <<>> ELSE [i \in 1..(last - s) |-> h[s + i]]

\* The body of the forEach callback for one hour
HourPenalty(score, hour, p) ==
    LET s1 == IF Less(hour.temp, p, "idealTempMin") \/ Greater(hour.temp, p, "idealTempMax")
              THEN FSub(score, TempHourPenalty) ELSE score
        s2 == IF Greater(hour.wind, p, "maxWindSpeed")
              THEN FSub(s1, WindHourPenalty) ELSE s1
        s3 == IF Greater(hour.precipitation, p, "maxPrecipitation")
              THEN FSub(s2, PrecipHourPenalty) ELSE s2
    IN  s3

\* The doubles that F64 and Ulp cover: 1 <= x < 16.  A window score is one
\* of them: it is at least 10 - 8 * (0.3 + 0.2 + 0.4).
Representable(x) == x.hi >= 2^27

\* let score = 10; windowHours.forEach(...).  The test on score has TLC
\* compute the score of the hours visited so far before it visits the next.
RECURSIVE ForEachHour(_, _, _)
ForEachHour(score, hours, p) ==
    IF ~Representable(score) \/ Len(hours) = 0 THEN score
    ELSE ForEachHour(HourPenalty(score, Head(hours), p), Tail(hours), p)

WindowScore(h, p, s, e) == ForEachHour(Ten, Slice(h, s, e), p)

\* The comparison with < in place of >
Worse(score, best) == FGreater(best.score, score)

\* The comparison with >= in place of >
BetterOrEqual(score, best) == ~FGreater(best.score, score)

\* if (score > bestWindow.score) bestWindow = { startHour: start, endHour: end, score }
Better(score, best) == FGreater(score, best.score)

-----------------------------------------------------------------------------
(* The inputs: activity names and forecasts *)

HoursPerDay == 24
MaxRun == 5
MaxDays == 2

Reading(t, w, p) == [temp |-> t, wind |-> w, precipitation |-> p]
Mild == Reading(20, 5, 0)
Warm == Reading(30, 22, 10)
Harsh == Reading(38, 55, 90)
Readings == {Mild, Warm, Harsh}

\* interface HourlyWeather (the fields the scoring and the display read)
Hourly(r, h) ==
    [hour |-> h, temp |-> r.temp, wind |-> r.wind,
     precipitation |-> r.precipitation]

\* n hourly samples, sample i for hour i: `alt` in the k hours from hour a
\* on, `base` in the others
Pattern(base, alt, a, k, n) ==
    [i \in 1..n |-> Hourly(IF a <= i - 1 /\ i - 1 < a + k THEN alt ELSE base, i - 1)]

HourlyArrays ==
    {Pattern(b, al, a, k, n) :
        b \in Readings, al \in Readings, a \in {6, 8, 11, 15},
        k \in {0, 2, MaxRun}, n \in {0, 8, 17, HoursPerDay}}

AllMild == Pattern(Mild, Mild, 0, 0, HoursPerDay)

\* interface DailyWeather (the fields the scoring reads)
Day(t, w, p, q, u, h) ==
    [temp |-> t, wind |-> w, precipitation |-> p, aqi |-> q, uv |-> u,
     hourlyData |-> h]

SummaryDays ==
    {Day(t, w, p, q, u, AllMild) :
        t \in {5, 10, 25, 38}, w \in {20, 55}, p \in {0, 20, 90},
        q \in {100, 160}, u \in {8, 9}}

CalmDay == Day(20, 5, 0, 30, 3, AllMild)
RoughDay == Day(38, 55, 90, 160, 9, Pattern(Harsh, Warm, 11, MaxRun, HoursPerDay))

HourlyDays == {Day(20, 5, 0, 30, 3, h) : h \in HourlyArrays}

FewForecasts ==
    {<<CalmDay>>, <<RoughDay>>}
        \cup UNION {[1..n -> {CalmDay, RoughDay}] : n \in 2..MaxDays}

\* The samples of h in the same positions, labelled with the hours of the
\* day counted backwards
Relabelled(h) ==
    [i \in DOMAIN h |-> [h[i] EXCEPT !.hour = HoursPerDay - i]]

RelabelledDay == [RoughDay EXCEPT !.hourlyData = Relabelled(RoughDay.hourlyData)]

RelabelledForecasts == {<<RoughDay, RelabelledDay>>, <<RelabelledDay, RoughDay>>}

Forecasts ==
    {<<d>> : d \in SummaryDays \cup HourlyDays}
        \cup FewForecasts \cup RelabelledForecasts

NameTrekking == <<"T", "r", "e", "k", "k", "i", "n", "g">>
NameBeachDay == <<"B", "e", "a", "c", "h", " ", "D", "a", "y">>
NameBEACHDAY == <<"B", "E", "A", "C", "H", " ", "D", "A", "Y">>
NameStargazing == <<"S", "t", "a", "r", "g", "a", "z", "i", "n", "g">>
NameEmpty == <<>>
NameBasketWeaving ==
    <<"u", "n", "d", "e", "r", "w", "a", "t", "e", "r", " ", "b", "a", "s",
      "k", "e", "t", " ", "w", "e", "a", "v", "i", "n", "g">>
NameConstructor == <<"c", "o", "n", "s", "t", "r", "u", "c", "t", "o", "r">>
NameProto == <<"_", "_", "p", "r", "o", "t", "o", "_", "_">>
NameToString == <<"t", "o", "S", "t", "r", "i", "n", "g">>

CoreNames == {NameTrekking, NameBeachDay, NameStargazing, NameConstructor}

ActivityNames ==
    CoreNames \cup {NameBEACHDAY, NameEmpty, NameBasketWeaving, NameProto,
                    NameToString, KeyBeachDay, KeyPicnic, KeyGardening}

\* The props the two components are rendered with
Scenarios == (ActivityNames \X FewForecasts) \cup (CoreNames \X Forecasts)

-----------------------------------------------------------------------------
(* The state machine *)

\* No notification has been stored and the notification centre has not
\* been opened: localStorage has no 'chronoclime_notifications' item, and
\* loadNotifications returns []
NothingStored ==
    /\ storage = <<>>
    /\ now = 0
    /\ notifications = <<>>
    /\ unreadCount = 0
    /\ markedId = <<>>
    /\ storedBefore = <<>>

Init ==
    /\ \E sc \in Scenarios : activity = sc[1] /\ forecast = sc[2]
    /\ selectedDay = Null
    /\ pc = "idle"
    /\ preferences = Null
    /\ resultsWithScores = <<>>
    /\ weather = Null
    /\ factors = <<>>
    /\ totalScore = 0
    /\ hourlyData = <<>>
    /\ start = 0
    /\ duration = 0
    /\ bestWindow = Null
    /\ optimalWindow = Null
    /\ observed = Null
    /\ invocations = <<>>
    /\ frames = <<>>
    /\ evaluated = <<>>
    /\ NothingStored

\* History of the remembered call o when function f returns for arguments
\* args: "other" once another call has returned after it, "again" once a call
\* on the remembered arguments has returned after that one.  Nothing is
\* remembered (o = Null) unless a call has been observed.
Recall(o, f, args) ==
    IF o = Null THEN o
    ELSE IF o.function = f /\ o.args = args
         THEN (IF o.since = "other" THEN [o EXCEPT !.since = "again"] ELSE o)
         ELSE (IF o.since = "none" THEN [o EXCEPT !.since = "other"] ELSE o)

\* ACISResults is rendered: const preferences = getActivityPreferences(activity)
\* and forecast.map(...) starts
ACISResultsRenderFrom(at) ==
    /\ pc = at
    /\ preferences' = getActivityPreferences(activity)
    /\ resultsWithScores' = <<>>
    /\ pc' = "map"
    /\ UNCHANGED <<noteVars, appVars, callVars, observed, selectedDay, acisVars, windowVars, optimalWindow>>

\* The first rendering, when the view changes to 'results'
ACISResultsRender == ACISResultsRenderFrom("idle")

\* A later rendering with the same props
ACISResultsRerender == ACISResultsRenderFrom("results")

\* forecast.map calls calculateACIS(day, preferences) for the next day:
\* const factors = []; let totalScore = 10
CalculateACISCall ==
    /\ pc = "map"
    /\ Len(resultsWithScores) < Len(forecast)
    /\ weather' = forecast[Len(resultsWithScores) + 1]
    /\ factors' = <<>>
    /\ totalScore' = BaseScore
    /\ pc' = "temperature"
    /\ UNCHANGED <<noteVars, appVars, callVars, observed, selectedDay, preferences, resultsWithScores,
                   windowVars, optimalWindow>>

\* One rule of calculateACIS: when it triggers, push the factor and add the
\* (negative) impact
Rule(at, triggered, name, impact, value, next) ==
    /\ pc = at
    /\ IF triggered
       THEN /\ factors' = Append(factors, Factor(name, impact, value))
            /\ totalScore' = totalScore + impact
       ELSE UNCHANGED <<factors, totalScore>>
    /\ pc' = next
    /\ UNCHANGED <<noteVars, appVars, callVars, observed, selectedDay, preferences, resultsWithScores,
                   weather, windowVars, optimalWindow>>

TemperatureRule ==
    Rule("temperature", TempScore(weather, preferences) # 0, "Temperature",
         TempScore(weather, preferences), weather.temp, "wind")

\* The Wind block under the label copied from the Temperature block
WindRuleMislabelled ==
    Rule("wind", WindExceeds(weather, preferences), "Temperature", WindPenalty,
         weather.wind, "precipitation")

WindRule ==
    Rule("wind", WindExceeds(weather, preferences), "Wind", WindPenalty,
         weather.wind, "precipitation")

PrecipitationRule ==
    Rule("precipitation", PrecipExceeds(weather, preferences), "Precipitation",
         PrecipPenalty, weather.precipitation, "aqi")

AirQualityRule ==
    Rule("aqi", AqiExceeds(weather), "Air Quality", AqiPenalty, weather.aqi, "uv")

UVRule ==
    Rule("uv", UvExceeds(weather), "UV Index", UvPenalty, weather.uv, "acis_return")

\* return { score: Math.max(1, Math.min(10, totalScore)), factors }, which the
\* map callback stores as { day, ...result }
CalculateACISReturn ==
    /\ pc = "acis_return"
    /\ resultsWithScores' =
           Append(resultsWithScores,
                  [day |-> weather, score |-> ClampScore(totalScore),
                   factors |-> factors])
    /\ pc' = "map"
    /\ observed' = Recall(observed, "calculateACIS", <<weather, preferences>>)
    /\ UNCHANGED <<noteVars, appVars, callVars, selectedDay, preferences, acisVars, windowVars,
                   optimalWindow>>

\* A reducer that moves to a later day on an equal score
RECURSIVE ReduceBestOrEqual(_, _, _)
ReduceBestOrEqual(arr, maxIdx, idx) ==
    IF idx > Len(arr) THEN maxIdx
    ELSE ReduceBestOrEqual(
             arr, IF arr[idx].score >= arr[maxIdx].score THEN idx ELSE maxIdx,
             idx + 1)

\* arr.reduce((maxIdx, curr, idx, arr) =>
\*     (curr.score > arr[maxIdx].score ? idx : maxIdx), 0)
\* from position idx on, maxIdx being the accumulator (positions count from 1)
RECURSIVE ReduceBest(_, _, _)
ReduceBest(arr, maxIdx, idx) ==
    IF idx > Len(arr) THEN maxIdx
    ELSE ReduceBest(
             arr, IF arr[idx].score > arr[maxIdx].score THEN idx ELSE maxIdx,
             idx + 1)

\* const bestDayIndex of ACISResults, as a position of resultsWithScores; the
\* card at that position carries the "Best Day" badge
bestDayIndex == ReduceBest(resultsWithScores, 1, 1)

\* forecast.map has visited every day: the results are displayed
MapDone ==
    /\ pc = "map"
    /\ Len(resultsWithScores) = Len(forecast)
    /\ pc' = "results"
    /\ UNCHANGED <<noteVars, appVars, callVars, observed, selectedDay, preferences, resultsWithScores,
                   acisVars, windowVars, optimalWindow>>

\* handleDaySelect: setSelectedDay(day), which mounts DayDetail
HandleDaySelect(i) ==
    /\ pc = "results"
    /\ selectedDay' = forecast[i]
    /\ pc' = "select"
    /\ UNCHANGED <<noteVars, appVars, callVars, observed, preferences, resultsWithScores, acisVars,
                   windowVars, optimalWindow>>

\* DayDetail is rendered: const preferences = getActivityPreferences(activity)
\* and findOptimalTimeWindow(day.hourlyData, preferences) is entered
DayDetailRenderFrom(at) ==
    /\ pc = at
    /\ preferences' = getActivityPreferences(activity)
    /\ hourlyData' = selectedDay.hourlyData
    /\ bestWindow' = InitialWindow
    /\ start' = FirstStart
    /\ duration' = MinDuration
    /\ evaluated' = <<>>
    /\ pc' = "loop"
    /\ UNCHANGED <<noteVars, appVars, callVars, observed, selectedDay, resultsWithScores, acisVars,
                   optimalWindow>>

\* The first rendering, when DayDetail is mounted
DayDetailRender == DayDetailRenderFrom("select")

\* A later rendering with the same props
DayDetailRerender == DayDetailRenderFrom("detail")

\* duration++, and at the end of the inner loop start++
NextIteration ==
    /\ IF duration < MaxDuration
       THEN /\ duration' = duration + 1
            /\ start' = start
       ELSE /\ duration' = MinDuration
            /\ start' = start + 1
    /\ pc' = IF start' < StartLimit THEN "loop" ELSE "window_return"

\* if (end > 20) continue
SkipCandidate ==
    /\ pc = "loop"
    /\ start + duration > LastEnd
    /\ NextIteration
    /\ UNCHANGED <<noteVars, appVars, callVars, observed, selectedDay, preferences, resultsWithScores,
                   acisVars, hourlyData, bestWindow, evaluated, optimalWindow>>

\* The inner loop body with hourlyData.splice(start, duration), which takes
\* the window's hours out of the caller's array
EvaluateCandidateSplice ==
    /\ pc = "loop"
    /\ start + duration <= LastEnd
    /\ LET end == start + duration
           score == WindowScore(hourlyData, preferences, start, end)
       IN  /\ bestWindow' =
                  IF Better(score, bestWindow)
                  THEN [startHour |-> start, endHour |-> end, score |-> score]
                  ELSE bestWindow
           /\ hourlyData' = Slice(hourlyData, 0, start)
                                \o Slice(hourlyData, end, Len(hourlyData))
    /\ evaluated' = Append(evaluated, <<start, duration>>)
    /\ NextIteration
    /\ UNCHANGED <<noteVars, appVars, callVars, observed, selectedDay, preferences, resultsWithScores,
                   acisVars, optimalWindow>>

\* One pass of the inner loop body for the window [start, start + duration)
EvaluateCandidate ==
    /\ pc = "loop"
    /\ start + duration <= LastEnd
    /\ LET end == start + duration
           score == WindowScore(hourlyData, preferences, start, end)
       IN  bestWindow' =
               IF Better(score, bestWindow)
               THEN [startHour |-> start, endHour |-> end, score |-> score]
               ELSE bestWindow
    /\ evaluated' = Append(evaluated, <<start, duration>>)
    /\ NextIteration
    /\ UNCHANGED <<noteVars, appVars, callVars, observed, selectedDay, preferences, resultsWithScores,
                   acisVars, hourlyData, optimalWindow>>

\* return bestWindow
FindOptimalTimeWindowReturn ==
    /\ pc = "window_return"
    /\ optimalWindow' = bestWindow
    /\ pc' = "detail"
    /\ observed' =
           Recall(observed, "findOptimalTimeWindow", <<hourlyData, preferences>>)
    /\ UNCHANGED <<noteVars, appVars, callVars, selectedDay, preferences, resultsWithScores,
                   acisVars, windowVars>>

\* handleCloseDayDetail: setSelectedDay(null), which unmounts DayDetail
HandleCloseDayDetail ==
    /\ pc = "detail"
    /\ selectedDay' = Null
    /\ optimalWindow' = Null
    /\ pc' = "results"
    /\ UNCHANGED <<noteVars, appVars, callVars, observed, preferences, resultsWithScores, acisVars,
                   windowVars>>

Next ==
    \/ ACISResultsRender
    \/ CalculateACISCall
    \/ TemperatureRule
    \/ WindRule
    \/ PrecipitationRule
    \/ AirQualityRule
    \/ UVRule
    \/ CalculateACISReturn
    \/ MapDone
    \/ \E i \in 1..Len(forecast) : HandleDaySelect(i)
    \/ DayDetailRender
    \/ SkipCandidate
    \/ EvaluateCandidate
    \/ FindOptimalTimeWindowReturn
    \/ HandleCloseDayDetail

Spec == Init /\ [][Next]_vars


-----------------------------------------------------------------------------
(* Repeated calls.  The components are rendered again with the same props,  *)
(* which calls both functions again on the same arguments; `observed`      *)
(* remembers one completed call, so that every later call on the same      *)
(* arguments can be compared with it.                                      *)

ObserveCalculateACIS ==
    /\ pc = "results"
    /\ observed = Null
    /\ \E r \in {resultsWithScores[i] : i \in DOMAIN resultsWithScores} :
           observed' = [function |-> "calculateACIS",
                        args |-> <<r.day, preferences>>,
                        result |-> [score |-> r.score, factors |-> r.factors],
                        since |-> "none"]
    /\ UNCHANGED <<noteVars, activity, forecast, callVars, selectedDay, pc, preferences,
                   resultsWithScores, acisVars, windowVars, optimalWindow>>

ObserveFindOptimalTimeWindow ==
    /\ pc = "detail"
    /\ observed = Null
    /\ observed' = [function |-> "findOptimalTimeWindow",
                    args |-> <<hourlyData, preferences>>,
                    result |-> optimalWindow, since |-> "none"]
    /\ UNCHANGED <<noteVars, activity, forecast, callVars, selectedDay, pc, preferences,
                   resultsWithScores, acisVars, windowVars, optimalWindow>>

InitRepeat ==
    /\ Init
    /\ activity \in CoreNames
    /\ forecast \in FewForecasts \cup RelabelledForecasts

NextRepeat ==
    \/ Next
    \/ ACISResultsRerender
    \/ DayDetailRerender
    \/ ObserveCalculateACIS
    \/ ObserveFindOptimalTimeWindow

SpecRepeat == InitRepeat /\ [][NextRepeat]_vars

\* A day of 8 samples and a day without samples
ShortDays ==
    {Day(20, 5, 0, 30, 3, Pattern(Mild, Harsh, 6, 2, n)) : n \in {0, 8}}

InitLive ==
    /\ Init
    /\ activity \in CoreNames
    /\ forecast \in FewForecasts \cup {<<d>> : d \in ShortDays}

\* A call that has been entered keeps running: the loop body, the `continue`
\* and the return are steps of one synchronous function
SpecLive ==
    /\ InitLive
    /\ [][Next]_vars
    /\ WF_vars(SkipCandidate)
    /\ WF_vars(EvaluateCandidate)
    /\ WF_vars(FindOptimalTimeWindowReturn)

-----------------------------------------------------------------------------
(* The forecast providers: generateDailyForecast (weatherData.ts),          *)
(* convertToAppFormat (weatherService.ts) and generateBackupWeatherData     *)
(* (backupWeatherService.ts).  Math.random() and the answers of the weather *)
(* API are inputs, drawn from small sets.  A daily summary keeps tempMin    *)
(* and tempMax besides the fields the scoring reads; the two are in TENTHS  *)
(* of a degree, because convertToAppFormat does not round them.             *)

\* Math.round(n / d) for d > 0: the nearest integer, a half goes upwards
Round(n, d) == (2 * n + d) \div (2 * d)

RECURSIVE Sum(_)
Sum(s) == IF Len(s) = 0 THEN 0 ELSE Head(s) + Sum(Tail(s))

\* Math.min(...s) and Math.max(...s) of a non-empty array
MinOf(s) == CHOOSE x \in {s[i] : i \in DOMAIN s} : \A i \in DOMAIN s : x <= s[i]
MaxOf(s) == CHOOSE x \in {s[i] : i \in DOMAIN s} : \A i \in DOMAIN s : x >= s[i]

\* A DailyWeather as a provider builds it
ProvidedDay(t, lo, hi, w, p, q, u, h) ==
    [temp |-> t, tempMin |-> lo, tempMax |-> hi, wind |-> w,
     precipitation |-> p, aqi |-> q, uv |-> u, hourlyData |-> h]

\* Math.sin(k * Math.PI / 12) * 8 for k = 0..6, in thousandths
QuarterWave == <<0, 2071, 4000, 5657, 6928, 7727, 8000>>

\* const tempVariation = Math.sin((hour - 6) * Math.PI / 12) * 8, in
\* thousandths, for hour 0..23
TempVariation(hour) ==
    LET k == hour - 6
    IN  IF k < 0 THEN 0 - QuarterWave[1 - k]
        ELSE IF k <= 6 THEN QuarterWave[k + 1]
        ELSE IF k <= 12 THEN QuarterWave[13 - k]
        ELSE 0 - QuarterWave[k - 11]

\* generateHourlyWeather(date, baseTemp): baseTemp in thousandths; draws[i]
\* holds the wind (5..30) and the precipitation (0..40) drawn for hour i - 1
generateHourlyWeather(baseTemp, draws) ==
    [i \in 1..HoursPerDay |->
        [hour |-> i - 1,
         temp |-> Round(baseTemp + TempVariation(i - 1), 1000),
         wind |-> draws[i].wind,
         precipitation |-> draws[i].precipitation]]

\* One day of generateDailyForecast: dayTemp in thousandths, q and u the
\* rounded averages of the hourly aqi and uv
GeneratedDay(dayTemp, draws, q, u) ==
    LET hourly == generateHourlyWeather(dayTemp, draws)
        temps == [i \in DOMAIN hourly |-> hourly[i].temp]
        count == Len(hourly)
    IN  ProvidedDay(Round(dayTemp, 1000), 10 * MinOf(temps), 10 * MaxOf(temps),
                    Round(Sum([i \in DOMAIN hourly |-> hourly[i].wind]), count),
                    Round(Sum([i \in DOMAIN hourly |-> hourly[i].precipitation]),
                          count),
                    q, u, hourly)

\* The draws of one day: still and dry, or windy and wet for some hours
StillDraw == Reading(0, 5, 0)
WetDraw == Reading(0, 30, 40)
Draws ==
    {[i \in DOMAIN d |-> [wind |-> d[i].wind, precipitation |-> d[i].precipitation]] :
        d \in {Pattern(StillDraw, WetDraw, 7, k, HoursPerDay) : k \in {0, MaxRun}}}

\* dayTemp = baseTemp + getRandomInRange(-5, 5) for one baseTemp in 15..28
DayTemps == {16200, 21500, 25800}

GeneratedDays == {GeneratedDay(t, d, 65, 6) : t \in DayTemps, d \in Draws}

\* generateDailyForecast(start, 14), the call of handleActivitySubmit
FallbackDays == 14

\* The forecast whose days are a, b, a, b, ...
Alternating(n, a, b) == [i \in 1..n |-> IF i % 2 = 1 THEN a ELSE b]

generateDailyForecast ==
    {Alternating(FallbackDays, a, b) : a \in GeneratedDays, b \in GeneratedDays}

\* Math.round(ms * 3.6), ms in tenths of a metre per second
convertWindSpeed(ms) == Round(36 * ms, 100)

\* Math.round(pop * 100), pop in hundredths
convertPrecipitation(pop) == pop

\* One entry of forecast.list: the local date and hour of dt, main.temp in
\* tenths, wind.speed in tenths, pop in hundredths
Item(date, hour, temp, speed, pop) ==
    [date |-> date, hour |-> hour, temp |-> temp, speed |-> speed, pop |-> pop]

\* n three-hourly entries, the first at hour h0 of date 0; the temperature
\* is t, and t + dt in every other entry
ForecastList(n, h0, t, dt) ==
    [k \in 1..n |->
        Item((h0 + 3 * (k - 1)) \div HoursPerDay, (h0 + 3 * (k - 1)) % HoursPerDay,
             IF k % 2 = 1 THEN t ELSE t + dt, 47, 10 * (k % 4))]

\* forecastMap.get(date): the entries of one date, in the order of the list
DayData(list, date) == SelectSeq(list, LAMBDA item : item.date = date)

\* The keys of forecastMap, in insertion order: the dates of the list, which
\* the API sends in ascending order
DatesOf(list) ==
    IF Len(list) = 0 THEN <<>>
    ELSE [i \in 1..(list[Len(list)].date - list[1].date + 1) |->
             list[1].date + i - 1]

\* One daily forecast of convertToAppFormat
ConvertedDay(dayData, q, u) ==
    LET temps == [i \in DOMAIN dayData |-> dayData[i].temp]
        n == Len(dayData)
    IN  ProvidedDay(
            Round(Sum(temps), 10 * n), MinOf(temps), MaxOf(temps),
            Round(Sum([i \in DOMAIN dayData |-> convertWindSpeed(dayData[i].speed)]), n),
            Round(Sum([i \in DOMAIN dayData |-> convertPrecipitation(dayData[i].pop)]), n),
            q, u,
            [i \in DOMAIN dayData |->
                [hour |-> dayData[i].hour,
                 temp |-> Round(dayData[i].temp, 10),
                 wind |-> convertWindSpeed(dayData[i].speed),
                 precipitation |-> convertPrecipitation(dayData[i].pop)]])

\* convertToAppFormat(current, forecast, airQuality): the current weather,
\* given the precipitation and the hourly data of the first daily forecast,
\* followed by the daily forecasts.  current holds main.temp, main.temp_min
\* and main.temp_max in tenths and wind.speed in tenths.
convertToAppFormat(current, list, q, u) ==
    LET dates == DatesOf(list)
        dailyForecasts ==
            [i \in DOMAIN dates |-> ConvertedDay(DayData(list, dates[i]), q, u)]
        first == Len(dailyForecasts) > 0
        currentWeather ==
            ProvidedDay(Round(current.temp, 10),
                        10 * Round(current.temp_min, 10),
                        10 * Round(current.temp_max, 10),
                        convertWindSpeed(current.speed),
                        IF first THEN dailyForecasts[1].precipitation ELSE 0,
                        q, u,
                        IF first THEN dailyForecasts[1].hourlyData ELSE <<>>)
    IN  <<currentWeather>> \o dailyForecasts

\* What the API answered
Currents == {[temp |-> 204, temp_min |-> 196, temp_max |-> 213, speed |-> 47]}
ForecastLists ==
    {ForecastList(n, h0, t, dt) :
        n \in {3, 12}, h0 \in {1, 15}, t \in {204, 206}, dt \in {0, 37}}

Converted ==
    {convertToAppFormat(c, l, 100, 10) : c \in Currents, l \in ForecastLists}

\* One day of generateBackupWeatherData.  The object has temperature,
\* windSpeed, uvIndex, airQuality and precipitation, and its hourly entries
\* have time, temperature, windSpeed and precipitation: the properties the
\* scoring reads other than precipitation are not there.
BackupDay(p, hourly) ==
    ProvidedDay(UndefinedNumber, UndefinedNumber, UndefinedNumber,
                UndefinedNumber, p, UndefinedNumber, UndefinedNumber,
                [i \in DOMAIN hourly |->
                    [hour |-> UndefinedNumber, temp |-> UndefinedNumber,
                     wind |-> UndefinedNumber, precipitation |-> hourly[i]]])

\* for (let hour = 0; hour < 24; hour += 3): eight entries, precipitation 0
\* or up to 10
BackupHourly == {[i \in 1..8 |-> IF i \in wet THEN 10 ELSE 0] : wet \in {{}, {3, 4}}}

BackupDays == {BackupDay(p, h) : p \in {0, 15}, h \in BackupHourly}

\* for (let i = 0; i < 7; i++)
BackupLength == 7

generateBackupWeatherData ==
    {Alternating(BackupLength, a, b) : a \in BackupDays, b \in BackupDays}

\* fetchCompleteWeatherData(city): the converted answer of the API, or the
\* backup data when the network or a request fails; handleActivitySubmit
\* falls back to generateDailyForecast when that throws or returns nothing
ProvidedForecasts ==
    Converted \cup generateBackupWeatherData \cup generateDailyForecast

ProviderNames == {NameTrekking, NameStargazing}

InitProviders ==
    /\ activity \in ProviderNames
    /\ forecast \in ProvidedForecasts
    /\ selectedDay = Null
    /\ pc = "idle"
    /\ preferences = Null
    /\ resultsWithScores = <<>>
    /\ weather = Null
    /\ factors = <<>>
    /\ totalScore = 0
    /\ hourlyData = <<>>
    /\ start = 0
    /\ duration = 0
    /\ bestWindow = Null
    /\ optimalWindow = Null
    /\ observed = Null
    /\ invocations = <<>>
    /\ frames = <<>>
    /\ evaluated = <<>>
    /\ NothingStored

SpecProviders == InitProviders /\ [][Next]_vars

-----------------------------------------------------------------------------
(* notificationService: weather alerts stored as notifications, and the    *)
(* NotificationCenter that marks them as read                              *)

\* The most notifications the storage holds here, and the last millisecond
\* of the clock
MaxStored == 4
MaxClock == 1

\* The variables of the rendering, which the notification service leaves
\* alone
renderVars ==
    <<appVars, callVars, selectedDay, pc, preferences, resultsWithScores,
      acisVars, windowVars, optimalWindow, observed>>

\* One WeatherAlert; message stands for the text, one key per push
Alert(type, severity, message) ==
    [type |-> type, severity |-> severity, message |-> message]

\* The argument of generateWeatherAlerts: the readings it compares
Conditions(t, p, w, q, u) ==
    [temp |-> t, precipitation |-> p, wind |-> w, aqi |-> q, uv |-> u]

\* x < y, x > y, x >= y, x <= y of JavaScript: false when the reading is
\* undefined
Below(x, y) == IsNumber(x) /\ x < y
Above(x, y) == IsNumber(x) /\ x > y
AtLeast(x, y) == IsNumber(x) /\ x >= y
AtMost(x, y) == IsNumber(x) /\ x <= y

\* generateWeatherAlerts(weather)
generateWeatherAlerts(w) ==
    (IF Below(w.temp, 0)
     THEN <<Alert("temperature", "high", "freezing"),
            Alert("activity_suggestion", "low", "winter sports")>>
     ELSE IF Above(w.temp, 35)
     THEN <<Alert("temperature", "high", "extreme heat"),
            Alert("activity_suggestion", "low", "indoor or water")>>
     ELSE IF AtLeast(w.temp, 20) /\ AtMost(w.temp, 30)
     THEN <<Alert("activity_suggestion", "low", "perfect weather")>>
     ELSE <<>>)
    \o
    (IF Above(w.precipitation, 80)
     THEN <<Alert("precipitation", "high", "heavy rain"),
            Alert("health_advice", "medium", "stay dry"),
            Alert("activity_suggestion", "low", "indoor activities")>>
     ELSE IF Above(w.precipitation, 60)
     THEN <<Alert("precipitation", "medium", "moderate rain")>>
     ELSE <<>>)
    \o
    (IF Above(w.wind, 50)
     THEN <<Alert("wind", "high", "strong winds"),
            Alert("health_advice", "medium", "secure objects"),
            Alert("activity_suggestion", "low", "sheltered activities")>>
     ELSE IF Above(w.wind, 30)
     THEN <<Alert("wind", "medium", "moderate winds")>>
     ELSE IF Below(w.wind, 10) /\ Above(w.temp, 15)
     THEN <<Alert("activity_suggestion", "low", "calm weather")>>
     ELSE <<>>)
    \o
    (IF Above(w.aqi, 150)
     THEN <<Alert("air_quality", "critical", "unhealthy air"),
            Alert("health_advice", "critical", "wear a mask"),
            Alert("activity_suggestion", "low", "indoor only")>>
     ELSE IF Above(w.aqi, 100)
     THEN <<Alert("air_quality", "medium", "moderate air")>>
     ELSE IF Below(w.aqi, 50)
     THEN <<Alert("activity_suggestion", "low", "excellent air"),
            Alert("health_advice", "low", "clean air")>>
     ELSE <<>>)
    \o
    (IF Above(w.uv, 8)
     THEN <<Alert("uv", "high", "very high UV"),
            Alert("health_advice", "high", "sunscreen"),
            Alert("activity_suggestion", "medium", "avoid midday")>>
     ELSE IF Above(w.uv, 6)
     THEN <<Alert("uv", "medium", "high UV")>>
     ELSE <<>>)

\* The template string `${prefix}_${kind}_${Date.now()}`
Id(prefix, kind, time) == <<prefix, kind, time>>

\* One NotificationData as JSON.parse(JSON.stringify(...)) gives it back:
\* the timestamp survives as its millisecond, and actionUrl is "" where the
\* object has none
Notification(id, title, message, type, severity, time, url) ==
    [id |-> id, title |-> title, message |-> message, type |-> type,
     severity |-> severity, timestamp |-> time, read |-> FALSE,
     actionUrl |-> url]

\* alertsToNotifications(alerts, location): times[i] is what Date.now()
\* returns in the callback of alerts[i]; the title is built from the
\* severity and the message from the alert's message
alertsToNotifications(alerts, times) ==
    [i \in DOMAIN alerts |->
        Notification(Id("weather", alerts[i].type, times[i]),
                     alerts[i].severity, alerts[i].message, "weather_alert",
                     alerts[i].severity, times[i], "")]

\* activityReminderToNotification(reminder)
activityReminderToNotification(reminderActivity, time) ==
    Notification(Id("activity", reminderActivity, time),
                 "Optimal Activity Conditions", reminderActivity,
                 "optimal_conditions", "low", time, "/planner")

\* addNotification: notifications.unshift(notification) on what is stored
addNotification(stored, notification) == <<notification>> \o stored

\* notifications.forEach(notification => addNotification(notification))
RECURSIVE AddEach(_, _)
AddEach(stored, list) ==
    IF Len(list) = 0 THEN stored
    ELSE AddEach(addNotification(stored, Head(list)), Tail(list))

\* markNotificationAsRead(id): notifications.find(n => n.id === id) is the
\* first stored notification with the id; it alone is marked
markNotificationAsRead(stored, id) ==
    LET found == {i \in DOMAIN stored : stored[i].id = id}
    IN  IF found = {} THEN stored
        ELSE LET first == CHOOSE i \in found : \A j \in found : i <= j
             IN  [stored EXCEPT ![first].read = TRUE]

\* getUnreadNotificationCount(): notifications.filter(n => !n.read).length
getUnreadNotificationCount(stored) ==
    Len(SelectSeq(stored, LAMBDA n : ~n.read))

\* What Date.now() returns in the callbacks of a map over n alerts: the
\* clock may pass to the next millisecond after the first k of them
Times(n, k) == [i \in 1..n |-> IF i <= k THEN now ELSE now + 1]

\* The weather checked: a pleasant day, a sunny one, a windy one, and the
\* forecast array that handleLocationSelect passes, on which every reading
\* is undefined
Pleasant == Conditions(25, 0, 5, 30, 3)
Sunny == Conditions(10, 0, 20, 70, 9)
Windy == Conditions(10, 0, 40, 70, 3)
ForecastArray ==
    Conditions(UndefinedNumber, UndefinedNumber, UndefinedNumber,
               UndefinedNumber, UndefinedNumber)
AlertConditions == {Pleasant, Sunny, Windy, ForecastArray}

\* checkAndShowWeatherAlerts(weather, location); the browser notification
\* it may show is not stored
CheckAndShowWeatherAlerts(w, k) ==
    LET alerts == generateWeatherAlerts(w)
        times == Times(Len(alerts), k)
    IN  /\ Len(storage) + Len(alerts) <= MaxStored
        /\ k = Len(alerts) \/ now < MaxClock
        /\ storage' = AddEach(storage, alertsToNotifications(alerts, times))
        /\ now' = IF k = Len(alerts) THEN now ELSE now + 1
        /\ markedId' = <<>>
        /\ storedBefore' = <<>>
        /\ UNCHANGED <<notifications, unreadCount, renderVars>>

\* scheduleActivityReminder(reminder): addNotification of the reminder
ScheduleActivityReminder(reminderActivity) ==
    /\ Len(storage) < MaxStored
    /\ storage' =
           addNotification(storage,
                           activityReminderToNotification(reminderActivity, now))
    /\ markedId' = <<>>
    /\ storedBefore' = <<>>
    /\ UNCHANGED <<now, notifications, unreadCount, renderVars>>

\* A millisecond passes
Tick ==
    /\ now < MaxClock
    /\ now' = now + 1
    /\ UNCHANGED <<storage, notifications, unreadCount, markedId, storedBefore,
                   renderVars>>

\* NotificationCenter, useEffect on isOpen: the stored notifications are
\* loaded and counted
OpenCenter ==
    /\ notifications' = storage
    /\ unreadCount' = getUnreadNotificationCount(storage)
    /\ markedId' = <<>>
    /\ storedBefore' = <<>>
    /\ UNCHANGED <<storage, now, renderVars>>

\* NotificationCenter.handleMarkAsRead(id), for a notification on display
HandleMarkAsRead(id) ==
    /\ \E i \in DOMAIN notifications : notifications[i].id = id
    /\ storage' = markNotificationAsRead(storage, id)
    /\ notifications' =
           [i \in DOMAIN notifications |->
               IF notifications[i].id = id
               THEN [notifications[i] EXCEPT !.read = TRUE]
               ELSE notifications[i]]
    /\ unreadCount' = getUnreadNotificationCount(storage')
    /\ markedId' = id
    /\ storedBefore' = storage
    /\ UNCHANGED <<now, renderVars>>

\* NotificationCenter.handleClearAll
HandleClearAll ==
    /\ storage' = <<>>
    /\ notifications' = <<>>
    /\ unreadCount' = 0
    /\ markedId' = <<>>
    /\ storedBefore' = <<>>
    /\ UNCHANGED <<now, renderVars>>

InitNotifications ==
    /\ Init
    /\ activity = NameTrekking
    /\ forecast = <<CalmDay>>

NextNotifications ==
    \/ \E w \in AlertConditions :
           \E k \in 0 .. Len(generateWeatherAlerts(w)) :
               CheckAndShowWeatherAlerts(w, k)
    \/ ScheduleActivityReminder("Trekking")
    \/ Tick
    \/ OpenCenter
    \/ \E id \in {notifications[i].id : i \in DOMAIN notifications} :
           HandleMarkAsRead(id)
    \/ HandleClearAll

SpecNotifications == InitNotifications /\ [][NextNotifications]_vars

-----------------------------------------------------------------------------
(* Calls running side by side.  The functions are synchronous, so a        *)
(* JavaScript thread runs each call to its return; here several calls on   *)
(* the same forecast and profile (one per rendering context) take their    *)
(* steps in any order.  A step is what is a step of the state machine       *)
(* above: the entry, one rule, one candidate window, the return.           *)

Invocations == {1, 2}
Functions == {"calculateACIS", "findOptimalTimeWindow"}
SharedForecast == <<CalmDay, RoughDay>>
SharedNames == {NameTrekking, NameStargazing, NameConstructor}

\* The locals of a call before it is entered
NoLocals ==
    [factors |-> <<>>, totalScore |-> 0, start |-> 0, duration |-> 0,
     bestWindow |-> Null]

\* A call of function fn on day d of the forecast, not yet entered.  `alone`
\* and `overlapped` are history: what the call returns when nothing else
\* runs, and whether it ran while another call was running.
NewCall(fn, d) ==
    [function |-> fn, day |-> d, pc |-> "call", result |-> Null,
     alone |-> Null, overlapped |-> FALSE]

\* The locals declared once outside the functions: one frame for all calls
LocalsShared(f) == 1

\* Every call declares its locals itself (const factors, let totalScore,
\* let bestWindow, let start, let duration, let score): the locals of
\* invocation f are in a frame of its own
Locals(f) == f

\* One rule of calculateACIS on the locals l
RuleStep(l, triggered, name, impact, value) ==
    IF triggered
    THEN [l EXCEPT !.factors = Append(@, Factor(name, impact, value)),
                   !.totalScore = @ + impact]
    ELSE l

\* The next step of a call c of calculateACIS(w, p) with locals l: the call
\* and the locals after it
ACISStep(c, l, w, p) ==
    CASE c.pc = "call" ->
             <<[c EXCEPT !.pc = "temperature"],
               [l EXCEPT !.factors = <<>>, !.totalScore = BaseScore]>>
      [] c.pc = "temperature" ->
             <<[c EXCEPT !.pc = "wind"],
               RuleStep(l, TempScore(w, p) # 0, "Temperature", TempScore(w, p),
                        w.temp)>>
      [] c.pc = "wind" ->
             <<[c EXCEPT !.pc = "precipitation"],
               RuleStep(l, WindExceeds(w, p), "Wind", WindPenalty, w.wind)>>
      [] c.pc = "precipitation" ->
             <<[c EXCEPT !.pc = "aqi"],
               RuleStep(l, PrecipExceeds(w, p), "Precipitation", PrecipPenalty,
                        w.precipitation)>>
      [] c.pc = "aqi" ->
             <<[c EXCEPT !.pc = "uv"],
               RuleStep(l, AqiExceeds(w), "Air Quality", AqiPenalty, w.aqi)>>
      [] c.pc = "uv" ->
             <<[c EXCEPT !.pc = "acis_return"],
               RuleStep(l, UvExceeds(w), "UV Index", UvPenalty, w.uv)>>
      [] c.pc = "acis_return" ->
             <<[c EXCEPT !.pc = "done",
                         !.result = [score |-> ClampScore(l.totalScore),
                                     factors |-> l.factors]], l>>

\* duration++, and at the end of the inner loop start++, on the locals l
NextCandidate(l) ==
    IF l.duration < MaxDuration
    THEN [l EXCEPT !.duration = @ + 1]
    ELSE [l EXCEPT !.duration = MinDuration, !.start = @ + 1]

\* The next step of a call c of findOptimalTimeWindow(h, p) with locals l
WindowStep(c, l, h, p) ==
    CASE c.pc = "call" ->
             <<[c EXCEPT !.pc = "loop"],
               [l EXCEPT !.bestWindow = InitialWindow, !.start = FirstStart,
                         !.duration = MinDuration]>>
      [] c.pc = "loop" ->
             LET end == l.start + l.duration
                 score == WindowScore(h, p, l.start, end)
                 kept == IF end <= LastEnd /\ Better(score, l.bestWindow)
                         THEN [l EXCEPT !.bestWindow =
                                   [startHour |-> l.start, endHour |-> end,
                                    score |-> score]]
                         ELSE l
                 next == NextCandidate(kept)
             IN  <<[c EXCEPT !.pc = IF next.start < StartLimit THEN "loop"
                                    ELSE "window_return"],
                   next>>
      [] c.pc = "window_return" ->
             <<[c EXCEPT !.pc = "done", !.result = l.bestWindow], l>>

\* The next step of call c on the shared forecast fc and profile p
CallStep(c, l, fc, p) ==
    IF c.function = "calculateACIS" THEN ACISStep(c, l, fc[c.day], p)
    ELSE WindowStep(c, l, fc[c.day].hourlyData, p)

\* The result of call c when it runs from its entry to its return with
\* nothing else running
RECURSIVE RunAlone(_, _, _, _)
RunAlone(c, l, fc, p) ==
    IF c.pc = "done" THEN c.result
    ELSE LET n == CallStep(c, l, fc, p) IN RunAlone(n[1], n[2], fc, p)

\* Call g has been entered and has not returned
Running(g) == invocations[g].pc \notin {"call", "done"}

\* History: a step of f while another call g is running marks f and g as
\* having overlapped
Overlap(f, g) ==
    \/ g = f /\ \E o \in Invocations \ {f} : Running(o)
    \/ g # f /\ Running(g)

\* Invocation f takes its next step
Step(f) ==
    /\ invocations[f].pc # "done"
    /\ LET k == Locals(f)
           n == CallStep(invocations[f], frames[k], forecast, preferences)
       IN  /\ invocations' =
                  [g \in Invocations |->
                      [(IF g = f THEN n[1] ELSE invocations[g])
                          EXCEPT !.overlapped = @ \/ Overlap(f, g)]]
           /\ frames' = [frames EXCEPT ![k] = n[2]]
    /\ UNCHANGED <<noteVars, appVars, observed, selectedDay, pc, preferences,
                   resultsWithScores, acisVars, windowVars, optimalWindow>>

StepCalculateACIS(f) ==
    invocations[f].function = "calculateACIS" /\ Step(f)

StepFindOptimalTimeWindow(f) ==
    invocations[f].function = "findOptimalTimeWindow" /\ Step(f)

\* The calls are listed once, not once in every order: calculateACIS before
\* findOptimalTimeWindow, and for one function the earlier day first
Ordered(calls) ==
    \A f, g \in Invocations :
        f < g =>
            \/ calls[f].function = "calculateACIS"
                   /\ calls[g].function = "findOptimalTimeWindow"
            \/ calls[f].function = calls[g].function
                   /\ calls[f].day <= calls[g].day

InitConcurrent ==
    /\ activity \in SharedNames
    /\ forecast = SharedForecast
    /\ preferences = getActivityPreferences(activity)
    /\ \E calls \in [Invocations -> {NewCall(fn, d) :
                                          fn \in Functions,
                                          d \in DOMAIN SharedForecast}] :
           /\ Ordered(calls)
           /\ invocations =
                  [f \in Invocations |->
                      [calls[f] EXCEPT
                          !.alone = RunAlone(calls[f], NoLocals, forecast,
                                             preferences)]]
    /\ frames = [f \in Invocations |-> NoLocals]
    /\ selectedDay = Null
    /\ pc = "idle"
    /\ resultsWithScores = <<>>
    /\ weather = Null
    /\ factors = <<>>
    /\ totalScore = 0
    /\ hourlyData = <<>>
    /\ start = 0
    /\ duration = 0
    /\ bestWindow = Null
    /\ optimalWindow = Null
    /\ observed = Null
    /\ evaluated = <<>>
    /\ NothingStored

NextConcurrent ==
    \E f \in Invocations :
        \/ StepCalculateACIS(f)
        \/ StepFindOptimalTimeWindow(f)

SpecConcurrent == InitConcurrent /\ [][NextConcurrent]_vars

-----------------------------------------------------------------------------
(* Properties.  Scores of calculateACIS are in tenths: 25 is 2.5, 100 is 10. *)

\* The results calculateACIS has returned in this rendering of ACISResults
Results == {resultsWithScores[i] : i \in DOMAIN resultsWithScores}

FactorNames(r) == {r.factors[i].name : i \in DOMAIN r.factors}

\* C1: for every daily summary and every profile, the score calculateACIS
\* returns lies in [1, 10].
C1_ScoreInRange == \A r \in Results : r.score >= 10 /\ r.score <= 100

\* The forecast holds a day that scored 2.5 and a day that scored 10
C1_Witness ==
    /\ pc = "results"
    /\ \E r \in Results : r.score = 25
    /\ \E r \in Results : r.score = 100

\* The place of a factor name in the order of the five rules (0: no such rule)
RuleRank(n) ==
    CASE n = "Temperature" -> 1 [] n = "Wind" -> 2 [] n = "Precipitation" -> 3
      [] n = "Air Quality" -> 4 [] n = "UV Index" -> 5 [] OTHER -> 0

\* C2: the factors list has at most 5 entries, every name is one of
\* Temperature, Wind, Precipitation, Air Quality, UV Index, no name appears
\* twice, and the entries are in that relative order.
C2_FactorsWellFormed ==
    \A r \in Results :
        /\ Len(r.factors) <= 5
        /\ \A i \in DOMAIN r.factors : RuleRank(r.factors[i].name) >= 1
        /\ \A i, j \in DOMAIN r.factors :
               i < j => RuleRank(r.factors[i].name) < RuleRank(r.factors[j].name)

\* A day with some but not all factors: Wind and a later one, no Temperature
C2_Witness ==
    /\ pc = "results"
    /\ \E r \in Results :
           /\ Len(r.factors) >= 2
           /\ r.factors[1].name = "Wind"

\* C3: for every hourly array, the empty one included, and every profile the
\* returned window has 6 <= startHour < endHour <= 20 and a duration of 3..8.
C3_WindowInBounds ==
    pc = "detail" =>
        /\ 6 <= optimalWindow.startHour
        /\ optimalWindow.startHour < optimalWindow.endHour
        /\ optimalWindow.endHour <= 20
        /\ 3 <= optimalWindow.endHour - optimalWindow.startHour
        /\ optimalWindow.endHour - optimalWindow.startHour <= 8

\* A window was returned for the empty array
C3_Witness ==
    /\ pc = "detail"
    /\ Len(hourlyData) = 0
    /\ optimalWindow.startHour = 6

\* 24 samples with the same readings, the temperature inside the ideal range
\* and wind and precipitation not above the ceilings
UniformGoodDay(h, p) ==
    /\ Len(h) = 24
    /\ \A i \in DOMAIN h :
           /\ h[i].temp = h[1].temp
           /\ h[i].wind = h[1].wind
           /\ h[i].precipitation = h[1].precipitation
    /\ GreaterEq(h[1].temp, p, "idealTempMin")
    /\ LessEq(h[1].temp, p, "idealTempMax")
    /\ LessEq(h[1].wind, p, "maxWindSpeed")
    /\ LessEq(h[1].precipitation, p, "maxPrecipitation")

\* C4 as stated: for 24 identical samples within the profile the result is
\* the maximal-duration window {startHour: 6, endHour: 14, score: 10}.
C4_MaximalDuration ==
    (pc = "detail" /\ UniformGoodDay(hourlyData, preferences)) =>
        optimalWindow = [startHour |-> 6, endHour |-> 14, score |-> Ten]

\* C4 amended: for 24 identical samples within the profile the result is the
\* first window enumerated, the 3-hour window {startHour: 6, endHour: 9,
\* score: 10}.
C4_FirstWindow ==
    (pc = "detail" /\ UniformGoodDay(hourlyData, preferences)) =>
        optimalWindow = [startHour |-> 6, endHour |-> 9, score |-> Ten]

C4_Witness ==
    /\ pc = "detail"
    /\ UniformGoodDay(hourlyData, preferences)
    /\ optimalWindow.score = Ten

\* The windows the search enumerates, as <<start, duration>>
Candidates == {c \in (6..17) \X (3..8) : c[1] + c[2] <= 20}

\* The candidate score of every enumerated window of hourly array h
CandidateScores(h, p) ==
    [c \in Candidates |-> WindowScore(h, p, c[1], c[1] + c[2])]

\* <<start, duration>> of the window the search returned
Returned == <<optimalWindow.startHour,
              optimalWindow.endHour - optimalWindow.startHour>>

\* C5: when several windows attain the maximum candidate score, the one
\* returned is the first of them in enumeration order: the smallest start
\* hour and, for that start hour, the shortest duration.
C5_FirstFoundWins ==
    pc = "detail" =>
        LET sc == CandidateScores(hourlyData, preferences)
            w == Returned
        IN  /\ w \in Candidates
            /\ \A c \in Candidates :
                   /\ ~FGreater(sc[c], sc[w])
                   /\ sc[c] = sc[w] =>
                          w[1] < c[1] \/ (w[1] = c[1] /\ w[2] <= c[2])

\* Several windows tie for the maximum, which is below 10, and the first of
\* them is not the first window enumerated
C5_Witness ==
    /\ pc = "detail"
    /\ optimalWindow.startHour > 6
    /\ FGreater(Ten, optimalWindow.score)
    /\ LET sc == CandidateScores(hourlyData, preferences)
       IN  \E c \in Candidates : c # Returned /\ sc[c] = optimalWindow.score

\* C6 as stated: every activity name that, lower-cased, is not a key of the
\* activity table resolves to the trekking profile {10, 25, 20, 20}.
C6_UnknownIsTrekking ==
    (preferences # Null /\ ToLowerCase(activity) \notin ActivityKeys) =>
        preferences = [idealTempMin |-> 10, idealTempMax |-> 25,
                       maxWindSpeed |-> 20, maxPrecipitation |-> 20]

\* All five penalty rules trigger for day d under profile p
AllFiveTrigger(d, p) ==
    /\ Less(d.temp, p, "idealTempMin") \/ Greater(d.temp, p, "idealTempMax")
    /\ Greater(d.wind, p, "maxWindSpeed")
    /\ Greater(d.precipitation, p, "maxPrecipitation")
    /\ d.aqi > 100
    /\ d.uv > 8

\* C7: when all five rules trigger, the score is 2.5 and the factors are
\* Temperature(-2), Wind(-1.5), Precipitation(-2.5), Air Quality(-1),
\* UV Index(-0.5), in that order, each with the day's reading as its value.
C7_AllFivePenalties ==
    \A r \in Results :
        AllFiveTrigger(r.day, preferences) =>
            /\ r.score = 25
            /\ r.factors =
                   <<[name |-> "Temperature", impact |-> -20, value |-> r.day.temp],
                     [name |-> "Wind", impact |-> -15, value |-> r.day.wind],
                     [name |-> "Precipitation", impact |-> -25,
                      value |-> r.day.precipitation],
                     [name |-> "Air Quality", impact |-> -10, value |-> r.day.aqi],
                     [name |-> "UV Index", impact |-> -5, value |-> r.day.uv]>>

C7_Witness ==
    /\ pc = "results"
    /\ \E r \in Results : AllFiveTrigger(r.day, preferences) /\ r.day.temp = 38

RECURSIVE SumImpacts(_)
SumImpacts(fs) == IF Len(fs) = 0 THEN 0 ELSE Head(fs).impact + SumImpacts(Tail(fs))

\* The temperature is outside [idealTempMin, idealTempMax]: not inside it
TemperatureOutside(d, p) ==
    ~(GreaterEq(d.temp, p, "idealTempMin") /\ LessEq(d.temp, p, "idealTempMax"))

\* C8: the score is 10 plus the sum of the impacts of the returned factors,
\* clamped to [1, 10]; a factor is present exactly when its rule triggered;
\* when no rule triggers the score is 10 and the list is empty.
C8_ScoreIsSumOfImpacts ==
    \A r \in Results :
        LET total == 100 + SumImpacts(r.factors)
            names == FactorNames(r)
            d == r.day
        IN  /\ r.score = (IF total < 10 THEN 10 ELSE IF total > 100 THEN 100 ELSE total)
            /\ ("Temperature" \in names) <=> TemperatureOutside(d, preferences)
            /\ ("Wind" \in names) <=> Greater(d.wind, preferences, "maxWindSpeed")
            /\ ("Precipitation" \in names)
                   <=> Greater(d.precipitation, preferences, "maxPrecipitation")
            /\ ("Air Quality" \in names) <=> d.aqi > 100
            /\ ("UV Index" \in names) <=> d.uv > 8
            /\ Len(r.factors) = 0 => r.score = 100

\* No rule triggered for a day whose readings sit on the thresholds
C8_Witness ==
    /\ pc = "results"
    /\ \E r \in Results :
           /\ r.factors = <<>>
           /\ r.score = 100
           /\ r.day.aqi = 100
           /\ r.day.uv = 8

\* C9 as stated: a Temperature factor with impact -2 and value day.temp is
\* recorded if and only if day.temp < idealTempMin or day.temp > idealTempMax.
C9_TemperatureIffOutside ==
    \A r \in Results :
        (\E i \in DOMAIN r.factors :
             r.factors[i] = [name |-> "Temperature", impact |-> -20,
                             value |-> r.day.temp])
            <=> (Less(r.day.temp, preferences, "idealTempMin")
                    \/ Greater(r.day.temp, preferences, "idealTempMax"))

\* C10: a call of calculateACIS or of findOptimalTimeWindow returns what an
\* earlier call on the same arguments returned, whatever was called between.
C10_SameArgumentsSameResult ==
    observed # Null =>
        /\ observed.function = "calculateACIS" =>
               \A r \in Results :
                   <<r.day, preferences>> = observed.args
                       => [score |-> r.score, factors |-> r.factors] = observed.result
        /\ (/\ observed.function = "findOptimalTimeWindow"
            /\ pc = "detail"
            /\ <<hourlyData, preferences>> = observed.args)
               => optimalWindow = observed.result

\* findOptimalTimeWindow has returned for the arguments of the remembered
\* call after another call had returned in between
C10_Witness ==
    /\ observed # Null
    /\ observed.function = "findOptimalTimeWindow"
    /\ observed.since = "again"
    /\ pc = "detail"
    /\ <<hourlyData, preferences>> = observed.args

\* The score of window [s, e) counted over the hours the array holds: the
\* 0-based indices i with s <= i < e and i < Len(h), visited in order
RECURSIVE PresentHoursScore(_, _, _, _, _)
PresentHoursScore(score, h, p, i, e) ==
    IF ~Representable(score) \/ i >= e THEN score
    ELSE PresentHoursScore(IF i < Len(h) THEN HourPenalty(score, h[i + 1], p)
                           ELSE score,
                           h, p, i + 1, e)

\* C11: for an hourly array of fewer than 24 entries a window is returned,
\* the hours the array lacks add no penalty to its score, and for the empty
\* array the result is the first candidate {startHour: 6, endHour: 9, score: 10}.
C11_ShortArrays ==
    (pc = "detail" /\ Len(hourlyData) < 24) =>
        /\ DOMAIN optimalWindow = {"startHour", "endHour", "score"}
        /\ optimalWindow.startHour \in 6..17
        /\ optimalWindow.endHour \in 9..20
        /\ optimalWindow.score =
               PresentHoursScore(Ten, hourlyData, preferences,
                                 optimalWindow.startHour, optimalWindow.endHour)
        /\ Len(hourlyData) = 0 =>
               optimalWindow = [startHour |-> 6, endHour |-> 9, score |-> Ten]

\* An array of 8 samples whose last two are penalised: the window returned
\* starts at the first missing hour, and a window that holds both present
\* and missing hours scored less
C11_Witness ==
    /\ pc = "detail"
    /\ Len(hourlyData) = 8
    /\ optimalWindow = [startHour |-> 8, endHour |-> 11, score |-> Ten]
    /\ FGreater(Ten, WindowScore(hourlyData, preferences, 7, 10))

\* The letters, each as <<upper case, lower case>>
CasePairs ==
    {<<"A", "a">>, <<"B", "b">>, <<"C", "c">>, <<"D", "d">>, <<"E", "e">>,
     <<"F", "f">>, <<"G", "g">>, <<"H", "h">>, <<"I", "i">>, <<"J", "j">>,
     <<"K", "k">>, <<"L", "l">>, <<"M", "m">>, <<"N", "n">>, <<"O", "o">>,
     <<"P", "p">>, <<"Q", "q">>, <<"R", "r">>, <<"S", "s">>, <<"T", "t">>,
     <<"U", "u">>, <<"V", "v">>, <<"W", "w">>, <<"X", "x">>, <<"Y", "y">>,
     <<"Z", "z">>}

\* Names a and b differ at most in the case of their letters
EqualIgnoringCase(a, b) ==
    /\ Len(a) = Len(b)
    /\ \A i \in DOMAIN a :
           \/ a[i] = b[i]
           \/ <<a[i], b[i]>> \in CasePairs
           \/ <<b[i], a[i]>> \in CasePairs

\* C12: the profile lookup is case-insensitive: the profile of the activity
\* is the profile of every name that differs from it only in letter case, of
\* its lower-case form in particular; 'Beach Day', 'BEACH DAY' and
\* 'beach day' resolve to the beach-day profile.
C12_CaseInsensitive ==
    preferences # Null =>
        /\ \A m \in ActivityNames \cup ActivityKeys :
               EqualIgnoringCase(activity, m)
                   => preferences = getActivityPreferences(m)
        /\ \A k \in ActivityKeys :
               EqualIgnoringCase(activity, k) => preferences = activityDefaults(k)
        /\ activity \in {NameBeachDay, NameBEACHDAY, KeyBeachDay}
               => preferences = [idealTempMin |-> 22, idealTempMax |-> 35,
                                 maxWindSpeed |-> 25, maxPrecipitation |-> 5]

\* The upper-case name has been resolved to the beach-day profile, and a day
\* that is too cold for the beach, though not for trekking, has been scored
C12_Witness ==
    /\ activity = NameBEACHDAY
    /\ pc = "results"
    /\ preferences = activityDefaults(KeyBeachDay)
    /\ \E r \in Results : r.day.temp = 20 /\ "Temperature" \in FactorNames(r)

\* C13: calculateACIS and findOptimalTimeWindow leave their arguments as they
\* were.  `forecast`, `selectedDay` and the activity table hold the contents
\* before the call; `weather`, `hourlyData` and `preferences` are what the
\* function's parameters refer to during the call and after it.
C13_ArgumentsUnchanged ==
    /\ pc \in {"temperature", "wind", "precipitation", "aqi", "uv", "acis_return"}
           => /\ weather = forecast[Len(resultsWithScores) + 1]
              /\ preferences = getActivityPreferences(activity)
    /\ \A i \in DOMAIN resultsWithScores :
           resultsWithScores[i].day = forecast[i]
    /\ pc \in {"map", "results"} => preferences = getActivityPreferences(activity)
    /\ pc \in {"loop", "window_return", "detail"}
           => /\ hourlyData = selectedDay.hourlyData
              /\ \A i \in DOMAIN hourlyData :
                     hourlyData[i] = selectedDay.hourlyData[i]
              /\ preferences = getActivityPreferences(activity)
              /\ \E i \in DOMAIN forecast : forecast[i] = selectedDay

\* Both functions have returned after applying penalties: the day was scored
\* with all five factors and its window scored below 10
C13_Witness ==
    /\ pc = "detail"
    /\ Len(hourlyData) = 24
    /\ FGreater(Ten, optimalWindow.score)
    /\ \E r \in Results : r.day = selectedDay /\ Len(r.factors) = 5

\* C14: whatever the order in which calls of calculateACIS and
\* findOptimalTimeWindow on the same forecast and profile take their steps,
\* every call returns what it returns when it runs alone (`alone`, the
\* result of RunAlone on the same arguments).
C14_InterleavingsAgree ==
    \A f \in DOMAIN invocations :
        invocations[f].pc = "done" =>
            invocations[f].result = invocations[f].alone

\* Two calls of findOptimalTimeWindow, on different days, have returned
\* different windows after each took steps while the other was running
C14_Witness ==
    /\ DOMAIN invocations = Invocations
    /\ \A f \in Invocations :
           /\ invocations[f].function = "findOptimalTimeWindow"
           /\ invocations[f].pc = "done"
           /\ invocations[f].overlapped
    /\ invocations[1].result # invocations[2].result

\* The windows scored so far by the call in progress or just returned
EvaluatedSet == {evaluated[i] : i \in DOMAIN evaluated}

\* C15: findOptimalTimeWindow terminates, having scored each <<start,
\* duration>> with start in 6..17, duration in 3..8 and start + duration <= 20
\* exactly once and no other window; at most 72 candidates are scored.
C15_TerminatesAfterEachCandidateOnce ==
    /\ [](/\ EvaluatedSet \subseteq Candidates
          /\ \A i, j \in DOMAIN evaluated : evaluated[i] = evaluated[j] => i = j
          /\ Len(evaluated) <= 72
          /\ pc \in {"window_return", "detail"} => EvaluatedSet = Candidates)
    /\ (pc = "loop") ~> (pc = "detail")

\* The call has returned after scoring all the candidates, for an array in
\* which some candidate was penalised
C15_Witness ==
    /\ pc = "detail"
    /\ Len(evaluated) = 57
    /\ evaluated[1] = <<6, 3>>
    /\ evaluated[57] = <<17, 3>>
    /\ FGreater(Ten, optimalWindow.score)

\* C16: the score of the returned window is the maximum candidate score over
\* the enumerated windows: some enumerated window has that score and none has
\* a strictly higher one.
C16_ReturnsMaximumScore ==
    pc = "detail" =>
        LET sc == CandidateScores(hourlyData, preferences)
        IN  /\ \E c \in Candidates : sc[c] = optimalWindow.score
            /\ \A c \in Candidates : ~FGreater(sc[c], optimalWindow.score)

\* The maximum is below 10 and is first attained by a window that is not
\* the first one enumerated: the windows before it scored strictly less
C16_Witness ==
    /\ pc = "detail"
    /\ FGreater(Ten, optimalWindow.score)
    /\ optimalWindow.startHour > 6
    /\ LET sc == CandidateScores(hourlyData, preferences)
       IN  \A c \in Candidates :
               c[1] < optimalWindow.startHour
                   => FGreater(optimalWindow.score, sc[c])


\* The present hours of window [s, e) of h that satisfy Test
PenalisedHours(h, s, e, Test(_)) ==
    Cardinality({i \in s..(e - 1) : i < Len(h) /\ Test(h[i + 1])})

\* 10 - 0.3 * T - 0.2 * W - 0.4 * P in tenths, T, W and P being counted
\* separately over the present hours of the window
ClosedFormTenths(h, p, s, e) ==
    LET T == PenalisedHours(h, s, e,
                 LAMBDA hour : \/ Less(hour.temp, p, "idealTempMin")
                               \/ Greater(hour.temp, p, "idealTempMax"))
        W == PenalisedHours(h, s, e,
                 LAMBDA hour : Greater(hour.wind, p, "maxWindSpeed"))
        P == PenalisedHours(h, s, e,
                 LAMBDA hour : Greater(hour.precipitation, p, "maxPrecipitation"))
    IN  100 - 3 * T - 2 * W - 4 * P

\* The double nearest to n / 10, for 10 <= n <= 100.  n * 2^55 / 10 is
\* n * (13421772 + 8/10) limbs; the fraction of a limb is k * 26843545.6 for
\* k = 8n mod 10, which is never halfway between two doubles.
NearestDouble(n) ==
    LET hi == n * 13421772 + (8 * n) \div 10
        k == (8 * n) % 10
        lo == k * 26843545 + (6 * k) \div 10
        u == Ulp(hi)
        r == lo % u
        lo2 == lo - r + (IF k # 0 /\ 2 * r >= u THEN u ELSE 0)
    IN  IF lo2 = Limb THEN F64(hi + 1, 0) ELSE F64(hi, lo2)

\* C17: the candidate score of every enumerated window [start, end) is
\* 10 - 0.3 * T - 0.2 * W - 0.4 * P, where T, W and P count the present hours
\* of the window whose temperature, wind and precipitation are outside the
\* profile.  The score that the loop computes by successive subtraction is
\* not always that number.
C17_ClosedFormScore ==
    pc = "detail" =>
        LET sc == CandidateScores(hourlyData, preferences)
        IN  \A c \in Candidates :
                sc[c] = NearestDouble(ClosedFormTenths(hourlyData, preferences,
                                                       c[1], c[1] + c[2]))

\* The computed score of every enumerated window is within 2^-47 of the
\* closed form: the distance, in units of 2^-55, is below 2^8
C17_ClosedFormWithinRounding ==
    pc = "detail" =>
        LET sc == CandidateScores(hourlyData, preferences)
        IN  \A c \in Candidates :
                LET d == NearestDouble(ClosedFormTenths(hourlyData, preferences,
                                                        c[1], c[1] + c[2]))
                    up == sc[c].hi - d.hi
                    units == up * Limb + sc[c].lo - d.lo
                IN  up \in -1..1 /\ units < 2^8 /\ 0 - units < 2^8


\* Hourly arrays that hold the same temp, wind and precipitation at the same
\* indices, whatever their .hour fields
SameReadings(h, g) ==
    /\ Len(h) = Len(g)
    /\ \A i \in DOMAIN h :
           /\ h[i].temp = g[i].temp
           /\ h[i].wind = g[i].wind
           /\ h[i].precipitation = g[i].precipitation

\* C18: findOptimalTimeWindow selects hours by array position only: a call
\* on an array that holds the same temp, wind and precipitation at the same
\* indices as the array of the remembered call, with the same preferences,
\* returns the same window and score, whatever the .hour fields are.
C18_PositionOnly ==
    (/\ observed # Null
     /\ observed.function = "findOptimalTimeWindow"
     /\ pc = "detail"
     /\ SameReadings(hourlyData, observed.args[1])
     /\ preferences = observed.args[2])
        => optimalWindow = observed.result

\* The call has returned for an array whose samples carry other .hour
\* fields than those of the remembered call and the same readings, and the
\* window found is neither the default nor the first one enumerated
C18_Witness ==
    /\ observed # Null
    /\ observed.function = "findOptimalTimeWindow"
    /\ pc = "detail"
    /\ SameReadings(hourlyData, observed.args[1])
    /\ preferences = observed.args[2]
    /\ \E i \in DOMAIN hourlyData : hourlyData[i].hour # observed.args[1][i].hour
    /\ optimalWindow.startHour > 6


\* The profiles the activity names resolve to
Profiles == {getActivityPreferences(n) : n \in ActivityNames}

\* The factors calculateACIS(d, q) returns
FactorsFor(d, q) ==
    RunAlone(NewCall("calculateACIS", 1), NoLocals, <<d>>, q).factors

\* The factors of fs recorded by the air quality rule and by the UV rule
AirAndUV(fs) ==
    SelectSeq(fs, LAMBDA f : f.name \in {"Air Quality", "UV Index"})

\* C19: the Air Quality factor (impact -1, value day.aqi) is recorded iff
\* day.aqi > 100 and the UV Index factor (impact -0.5, value day.uv) iff
\* day.uv > 8, and neither depends on the profile: for the day of every
\* result and every profile, calculateACIS records the same two factors as
\* in that result; aqi = 100 and uv = 8 trigger nothing.  Stated of the
\* results of a completed forecast.map.
C19_AirAndUVIgnoreProfile ==
    pc = "results" =>
        \A r \in Results :
            LET d == r.day
                recorded == AirAndUV(r.factors)
                air == Factor("Air Quality", AqiPenalty, d.aqi)
                sun == Factor("UV Index", UvPenalty, d.uv)
            IN  /\ recorded = (IF d.aqi > 100 THEN <<air>> ELSE <<>>)
                                  \o (IF d.uv > 8 THEN <<sun>> ELSE <<>>)
                /\ \A q \in Profiles : AirAndUV(FactorsFor(d, q)) = recorded

\* A day with aqi 160 and uv 8 got the Air Quality factor and no UV Index
\* factor, under a profile for which another profile gives other factors;
\* and a day with aqi 100 and uv 9 got the UV Index factor only
C19_Witness ==
    /\ pc = "results"
    /\ \E r \in Results :
           /\ r.day.aqi = 160 /\ r.day.uv = 8
           /\ AirAndUV(r.factors) = <<Factor("Air Quality", AqiPenalty, 160)>>
           /\ \E q \in Profiles : FactorsFor(r.day, q) # r.factors


\* The factors of result r that are named Wind
WindFactors(r) == SelectSeq(r.factors, LAMBDA f : f.name = "Wind")

\* C20: calculateACIS records a Wind factor with impact -1.5 and value
\* day.wind if and only if day.wind is strictly greater than the profile's
\* maxWindSpeed; it records no other Wind factor, and wind equal to the
\* ceiling is not penalised.
C20_WindIffAboveCeiling ==
    \A r \in Results :
        WindFactors(r) =
            (IF Greater(r.day.wind, preferences, "maxWindSpeed")
             THEN <<Factor("Wind", WindPenalty, r.day.wind)>>
             ELSE <<>>)

\* A day whose wind equals the ceiling of the profile got no Wind factor,
\* though another rule did trigger for it
C20_Witness ==
    /\ pc = "results"
    /\ "maxWindSpeed" \in DOMAIN preferences
    /\ \E r \in Results :
           /\ r.day.wind = preferences.maxWindSpeed
           /\ WindFactors(r) = <<>>
           /\ Len(r.factors) > 0

\* A day whose wind is above the ceiling got the Wind factor
C20_WitnessAbove ==
    /\ pc = "results"
    /\ \E r \in Results :
           /\ Greater(r.day.wind, preferences, "maxWindSpeed")
           /\ WindFactors(r) = <<Factor("Wind", WindPenalty, r.day.wind)>>


\* The factors of result r that are named Precipitation
PrecipitationFactors(r) ==
    SelectSeq(r.factors, LAMBDA f : f.name = "Precipitation")

\* C21: calculateACIS records a Precipitation factor with impact -2.5 and
\* value day.precipitation if and only if day.precipitation is strictly
\* greater than the profile's maxPrecipitation, and no other Precipitation
\* factor; under the stargazing profile (maxPrecipitation 0) every
\* precipitation above 0 is penalised and exactly 0 is not.
C21_PrecipitationIffAboveCeiling ==
    \A r \in Results :
        LET penalty == <<Factor("Precipitation", PrecipPenalty,
                                r.day.precipitation)>>
        IN  /\ PrecipitationFactors(r) =
                   (IF Greater(r.day.precipitation, preferences,
                               "maxPrecipitation")
                    THEN penalty ELSE <<>>)
            /\ preferences = activityDefaults(KeyStargazing) =>
                   PrecipitationFactors(r) =
                       (IF r.day.precipitation > 0 THEN penalty ELSE <<>>)

\* Under the stargazing profile a day without precipitation got no
\* Precipitation factor, though another rule triggered for it
C21_Witness ==
    /\ pc = "results"
    /\ preferences = activityDefaults(KeyStargazing)
    /\ preferences.maxPrecipitation = 0
    /\ \E r \in Results :
           /\ r.day.precipitation = 0
           /\ PrecipitationFactors(r) = <<>>
           /\ Len(r.factors) > 0

\* Under the stargazing profile a day with precipitation got the factor
C21_WitnessAbove ==
    /\ pc = "results"
    /\ preferences = activityDefaults(KeyStargazing)
    /\ \E r \in Results :
           /\ r.day.precipitation > 0
           /\ PrecipitationFactors(r) =
                  <<Factor("Precipitation", PrecipPenalty, r.day.precipitation)>>


\* The array has an entry for every hour 0..23, in ascending order: the
\* entry at array index i (counted from 0) has hour i
HourPerIndex(h) ==
    /\ Len(h) = HoursPerDay
    /\ \A i \in DOMAIN h : h[i].hour = i - 1

\* C22: every hourly sequence that reaches findOptimalTimeWindow from a
\* forecast provider has exactly 24 entries, one per hour 0..23 in ascending
\* order, the entry at index i having hour i.  It holds of the days of
\* generateDailyForecast only.
C22_TwentyFourHourlyEntries ==
    pc \in {"loop", "detail"} => HourPerIndex(hourlyData)

\* The days of generateDailyForecast do have the 24 entries
C22_GeneratedDaysHave24 ==
    (pc \in {"loop", "detail"} /\ forecast \in generateDailyForecast)
        => HourPerIndex(hourlyData)

\* The days of convertToAppFormat and of generateBackupWeatherData have at
\* most 8 entries
C22_OtherDaysHaveAtMost8 ==
    (pc \in {"loop", "detail"} /\ forecast \notin generateDailyForecast)
        => Len(hourlyData) <= 8


\* tempMin <= temp <= tempMax for the summary d (tempMin and tempMax are in
\* tenths of a degree, temp in degrees)
TempWithinRange(d) ==
    /\ IsNumber(d.temp) /\ IsNumber(d.tempMin) /\ IsNumber(d.tempMax)
    /\ d.tempMin <= 10 * d.temp
    /\ 10 * d.temp <= d.tempMax

\* C23: every daily summary of the forecast the providers produced has
\* tempMin <= temp <= tempMax, temp being the summary temperature that
\* calculateACIS reads.  convertToAppFormat rounds the mean and leaves the
\* extremes unrounded, so the rounded mean can lie outside them.
C23_TempBetweenMinAndMax ==
    pc = "results" =>
        \A r \in Results : r.day \in {forecast[i] : i \in DOMAIN forecast}
                               /\ TempWithinRange(r.day)

\* It holds of the days of generateDailyForecast
C23_GeneratedDaysWithinRange ==
    forecast \in generateDailyForecast =>
        \A i \in DOMAIN forecast : TempWithinRange(forecast[i])

\* It holds of the current-weather summary of convertToAppFormat when the
\* API's temp_min <= temp <= temp_max
C23_CurrentWeatherWithinRange ==
    forecast \in Converted => TempWithinRange(forecast[1])

\* It fails for a converted forecast only at days whose entries have
\* temperatures that are not whole degrees
C23_ConvertedFailures ==
    forecast \in Converted =>
        \A i \in DOMAIN forecast :
            ~TempWithinRange(forecast[i]) =>
                (forecast[i].tempMin % 10 # 0 \/ forecast[i].tempMax % 10 # 0)


\* C24: the window findOptimalTimeWindow returns has duration exactly 3:
\* endHour = startHour + 3, for every hourly array and profile.  A longer
\* window never scores strictly more than the 3-hour window with the same
\* start, which is evaluated before it.
C24_DurationIsThree ==
    /\ pc = "detail" => optimalWindow.endHour = optimalWindow.startHour + 3
    /\ pc = "detail" =>
           LET sc == CandidateScores(hourlyData, preferences)
           IN  \A c \in Candidates : ~FGreater(sc[c], sc[<<c[1], 3>>])

\* The returned 3-hour window scores below 10 and does not start at 6, and
\* the longer windows with the same start score strictly less
C24_Witness ==
    /\ pc = "detail"
    /\ FGreater(Ten, optimalWindow.score)
    /\ optimalWindow.startHour > 6
    /\ optimalWindow.endHour = optimalWindow.startHour + 3
    /\ LET sc == CandidateScores(hourlyData, preferences)
       IN  \A c \in Candidates :
               (c[1] = optimalWindow.startHour /\ c[2] > 3)
                   => FGreater(optimalWindow.score, sc[c])

\* The returned 3-hour window ties with the 4-hour window of the same start
C24_WitnessTie ==
    /\ pc = "detail"
    /\ optimalWindow.startHour > 6
    /\ optimalWindow.endHour = optimalWindow.startHour + 3
    /\ LET sc == CandidateScores(hourlyData, preferences)
       IN  sc[<<optimalWindow.startHour, 4>>] = optimalWindow.score


\* C25: the score findOptimalTimeWindow returns is at least 7.3 and at most
\* 10, and the initial default {startHour: 9, endHour: 17, score: 0} is
\* never returned.  The loop's score for three hours with all three
\* penalties is the double below 7.3.
C25_ScoreAtLeastSevenPointThree ==
    pc = "detail" =>
        /\ ~FGreater(NearestDouble(73), optimalWindow.score)
        /\ ~FGreater(optimalWindow.score, Ten)
        /\ optimalWindow # InitialWindow

\* The default is never returned and the score is at most 10
C25_DefaultNeverReturned ==
    pc = "detail" =>
        /\ ~FGreater(optimalWindow.score, Ten)
        /\ optimalWindow # InitialWindow
        /\ FGreater(optimalWindow.score, Zero)

\* A returned score below 7.3 is the double next below it: 7.3 less one
\* unit in the last place, 2^-50
C25_BelowOnlyByRounding ==
    (pc = "detail" /\ FGreater(NearestDouble(73), optimalWindow.score)) =>
        /\ optimalWindow.score.hi = NearestDouble(73).hi
        /\ optimalWindow.score.lo = NearestDouble(73).lo - Ulp(NearestDouble(73).hi)


\* C26: for an hourly array of at most 17 entries findOptimalTimeWindow
\* returns score exactly 10, because some candidate lies wholly beyond the
\* end of the array, and the returned startHour is at most max(6, length).
C26_ShortArrayScoresTen ==
    (pc = "detail" /\ Len(hourlyData) <= 17) =>
        /\ optimalWindow.score = Ten
        /\ optimalWindow.startHour <= Max2(6, Len(hourlyData))
        /\ \E c \in Candidates :
               /\ c[1] >= Len(hourlyData)
               /\ Slice(hourlyData, c[1], c[1] + c[2]) = <<>>

\* An array of 17 entries whose hours from 6 on are all penalised: the
\* returned window is the first one beyond the array, [17, 20)
C26_Witness ==
    /\ pc = "detail"
    /\ Len(hourlyData) = 17
    /\ optimalWindow = [startHour |-> 17, endHour |-> 20, score |-> Ten]
    /\ LET sc == CandidateScores(hourlyData, preferences)
       IN  \A c \in Candidates : c[1] < 17 => FGreater(Ten, sc[c])

\* An array of 8 entries, as many as a provider of three-hourly data gives
C26_WitnessEight ==
    /\ pc = "detail"
    /\ Len(hourlyData) = 8
    /\ optimalWindow = [startHour |-> 8, endHour |-> 11, score |-> Ten]


\* The multiples of 0.5 from 2.5 to 10, in tenths
HalfSteps == {25 + 5 * k : k \in 0 .. 15}

\* The scores calculateACIS returns over the daily summaries and the profiles
ReturnedScores ==
    {RunAlone(NewCall("calculateACIS", 1), NoLocals, <<d>>, q).score :
        d \in SummaryDays, q \in Profiles}

\* C27: the total calculateACIS has reached at its return statement is never
\* below 2.5 nor above 10, so Math.max(1, Math.min(10, total)) returns the
\* total itself; every stored score is a multiple of 0.5 from 2.5 to 10, and
\* each of those sixteen values is returned for some day and profile.
C27_ClampNeverActs ==
    /\ pc = "acis_return" =>
           /\ totalScore >= 25 /\ totalScore <= 100
           /\ ClampScore(totalScore) = totalScore
           /\ totalScore = BaseScore + SumImpacts(factors)
    /\ \A r \in Results : r.score \in HalfSteps
    /\ ReturnedScores = HalfSteps

\* calculateACIS stands at its return statement with all five penalties
\* subtracted: the total is 2.5, the lowest the clamp ever receives
C27_Witness ==
    /\ pc = "acis_return"
    /\ Len(factors) = 5
    /\ totalScore = 25
    /\ ClampScore(totalScore) = 25


\* DayDetail marks the sample `hour` as optimal when
\* hour.hour >= optimalWindow.startHour && hour.hour < optimalWindow.endHour:
\* the positions of h so marked for the window w
Highlighted(h, w) ==
    {i \in DOMAIN h :
        IsNumber(h[i].hour) /\ h[i].hour >= w.startHour /\ h[i].hour < w.endHour}

\* The positions of h whose samples hourlyData.slice(w.startHour, w.endHour)
\* holds: array indices startHour .. endHour - 1 that exist
Counted(h, w) ==
    {i \in DOMAIN h : i - 1 >= w.startHour /\ i - 1 < w.endHour}

\* C28: in the day detail view the samples marked "Optimal Time" are exactly
\* the samples whose penalties findOptimalTimeWindow counted for the window
\* it returned, for every hourly array a forecast provider supplies.  It
\* holds of the days of generateDailyForecast only.
C28_HighlightedAreCounted ==
    pc = "detail" =>
        Highlighted(hourlyData, optimalWindow) = Counted(hourlyData, optimalWindow)

\* The days of generateDailyForecast have hour = index, and there the marked
\* samples are the counted ones
C28_GeneratedDaysAgree ==
    (pc = "detail" /\ forecast \in generateDailyForecast) =>
        /\ Highlighted(hourlyData, optimalWindow) = Counted(hourlyData, optimalWindow)
        /\ Cardinality(Counted(hourlyData, optimalWindow)) =
               optimalWindow.endHour - optimalWindow.startHour

\* For a day of generateBackupWeatherData nothing is marked, the samples
\* having no hour, whatever was counted
C28_BackupDaysMarkNothing ==
    (pc = "detail" /\ forecast \in generateBackupWeatherData) =>
        Highlighted(hourlyData, optimalWindow) = {}


\* C29: for a non-empty forecast the day marked "Best Day" has a score
\* greater than or equal to the score of every other day, and among the days
\* that share the maximum the earliest in forecast order is the one marked.
C29_BestDayIsEarliestMaximum ==
    (pc = "results" /\ Len(forecast) > 0) =>
        /\ bestDayIndex \in DOMAIN resultsWithScores
        /\ resultsWithScores[bestDayIndex].day = forecast[bestDayIndex]
        /\ \A i \in DOMAIN resultsWithScores :
               /\ resultsWithScores[bestDayIndex].score >= resultsWithScores[i].score
               /\ resultsWithScores[i].score = resultsWithScores[bestDayIndex].score
                      => bestDayIndex <= i

\* Several days share the maximum, the first day scores lower, and the
\* badge is on the second day, the earliest of them
C29_Witness ==
    /\ pc = "results"
    /\ Len(forecast) > 2
    /\ bestDayIndex = 2
    /\ resultsWithScores[1].score < resultsWithScores[2].score
    /\ \E i \in 3 .. Len(resultsWithScores) :
           resultsWithScores[i].score = resultsWithScores[2].score

\* Two days share the maximum and the badge is on the first
C29_WitnessFirst ==
    /\ pc = "results"
    /\ Len(forecast) = 2
    /\ bestDayIndex = 1
    /\ resultsWithScores[1].score = resultsWithScores[2].score


\* The positions of the stored notifications that carry the id
StoredWith(stored, id) == {i \in DOMAIN stored : stored[i].id = id}

\* C30: right after markNotificationAsRead(id), no stored notification with
\* that id is unread, every stored notification with another id is as it
\* was, and getUnreadNotificationCount is the number of stored notifications
\* with read = false.
C30_MarkedIdIsRead ==
    markedId # <<>> =>
        /\ \A i \in StoredWith(storage, markedId) : storage[i].read
        /\ Len(storage) = Len(storedBefore)
        /\ \A i \in DOMAIN storage :
               storedBefore[i].id # markedId => storage[i] = storedBefore[i]
        /\ unreadCount = Cardinality({i \in DOMAIN storage : ~storage[i].read})

\* What does hold: the first stored notification with the id is read, the
\* notifications with another id are as they were, and the count is right
C30_FirstWithIdIsRead ==
    markedId # <<>> =>
        /\ \E i \in StoredWith(storage, markedId) :
               /\ storage[i].read
               /\ \A j \in StoredWith(storage, markedId) : i <= j
        /\ Len(storage) = Len(storedBefore)
        /\ \A i \in DOMAIN storage :
               storedBefore[i].id # markedId => storage[i] = storedBefore[i]
        /\ unreadCount = Cardinality({i \in DOMAIN storage : ~storage[i].read})

\* Where the id is stored once, no notification with it remains unread
C30_UniqueIdIsRead ==
    (markedId # <<>> /\ Cardinality(StoredWith(storage, markedId)) = 1) =>
        \A i \in StoredWith(storage, markedId) : storage[i].read

\* The notification centre shows every notification with the id as read
C30_CenterShowsRead ==
    markedId # <<>> =>
        \A i \in DOMAIN notifications :
            notifications[i].id = markedId => notifications[i].read

=============================================================================
